---- MODULE Spec2Model ----
(***************************************************************************)
(* CommuteCast: the per-article generation pipeline and playback engine of *)
(* the article card (components/ArticleCard.tsx and its fuller variant     *)
(* with the retry / reset panel), and the article collections and active   *)
(* playback slot of the application component.                             *)
(*                                                                         *)
(* One card is mounted per article of the list shown.  A handler is one    *)
(* action; the React effects a handler triggers are applied inside the     *)
(* same action.  An in-flight handleGenerate call is a record in runs: it  *)
(* keeps the values its closure captured when the button was pressed.      *)
(* The elapsed time of a card moves only in SpecEngine (the fuller         *)
(* variant) and SpecCard (ArticleCard.tsx), in units of five seconds.      *)
(* The star rating and the undo stack are fields of the card.  The calls   *)
(* of startPlayback that await resume() or decodeAudioData, and the         *)
(* sources with their identities, are fields of the engine and move only   *)
(* in SpecAwait and SpecSwap (a restore while a call awaits).  The two     *)
(* stored lists are kept as JSON.stringify writes them: a property whose   *)
(* value is undefined is left out.  SpecAdd adds articles through the      *)
(* form, SpecSave saves articles to the library, and SpecLive is the       *)
(* pipeline and the URL extraction when it is taken that every            *)
(* external call is eventually resolved or rejected.                       *)
(***************************************************************************)
EXTENDS Integers, Sequences, FiniteSets, TLC

VARIABLES
  articles,          \* App: the queue (sequence of article values)
  savedArticles,     \* App: the library
  activeTab,         \* App: the list shown, "queue" or "library"
  activePlaybackId,  \* App: the active playback slot ("none" for null)
  selectedLanguage,  \* App: the language chosen in the header
  draggedItemIndex,  \* App: index of the card being dragged (-1 for null)
  dragOverIndex,     \* App: index of the card dragged over (-1 for null)
  card,              \* per article id: the state of its ArticleCard
  engine,            \* per article id: the clock, calls and sources of its engine
  runs,              \* per article id: the handleGenerate calls in flight
  nextId,            \* source of fresh ids: one per handleGenerate call
  edits,             \* number of settings / feedback / save clicks so far
  budget,            \* the bounds of this behaviour: [runs, edits]; in SpecAwait
                     \* also full, whether the cards are of the fuller variant
  form,              \* App: the add-article form (url, fetched fields, fetch state)
  storage,           \* localStorage: the items commute_queue and commute_library
  ev                 \* the calls and reports made by the last step

vars == <<articles, savedArticles, activeTab, activePlaybackId,
          selectedLanguage, draggedItemIndex, dragOverIndex,
          card, engine, runs, nextId, edits, budget, form, storage, ev>>

----------------------------------------------------------------------------
(* Bounds *)

MaxRuns == 1         \* handleGenerate calls over a behaviour of Spec
MaxEdits == 1        \* settings, feedback and save clicks over a behaviour of Spec
MaxRunsLong == 2     \* handleGenerate calls over a behaviour of SpecLong
MaxSaves == 2        \* save clicks over a behaviour of SpecPlay

----------------------------------------------------------------------------
(* Data *)

ArticleIds == {"a1", "a2"}
Cards == {"a1"}                          \* the cards the user works with
Languages == {"English", "Spanish"}
Voices == {"Kore", "Puck"}
Pitches == {0, 1}
SummaryResponses == {"s2"}               \* response.text of the summarizer
SpeechResponses == {"", "pcm"}           \* inlineData.data of the synthesizer
FeedbackTypes == {"positive", "negative"}
ErrorTags == {"summarization", "audio", "playback"}

selectedVoice == "Kore"

\* "no entry": an undefined currentSummary
NoEntry ==
  [id |-> 0, summaryText |-> "", audioBlob |-> "", voice |-> "Kore",
   language |-> "English", pitch |-> 0, feedback |-> "none", starRating |-> 0]

\* addArticle: a new article has no summary and an empty history
NewArticle(id) ==
  [id |-> id, content |-> id, url |-> id,
   currentSummary |-> NoEntry, summaryHistory |-> <<>>]

\* An article as an earlier session left it in the stored queue: generated
\* twice (first in Spanish with the Puck voice, then with the defaults), so
\* that it has a current summary and one older version.
StoredOld ==
  [id |-> 8, summaryText |-> "s0", audioBlob |-> "pcm", voice |-> "Puck",
   language |-> "Spanish", pitch |-> 1, feedback |-> "none", starRating |-> 0]

StoredCurrent ==
  [id |-> 9, summaryText |-> "s1", audioBlob |-> "pcm", voice |-> "Kore",
   language |-> "English", pitch |-> 0, feedback |-> "none", starRating |-> 0]

StoredArticle(id) ==
  [id |-> id, content |-> id, url |-> id,
   currentSummary |-> StoredCurrent, summaryHistory |-> <<StoredOld>>]

StoredQueue == <<StoredArticle("a1"), NewArticle("a2")>>

\* the same article with a summary whose audio is twice as long
LongCurrent == [StoredCurrent EXCEPT !.audioBlob = "pcm20"]

LongArticle(id) == [StoredArticle(id) EXCEPT !.currentSummary = LongCurrent]

\* the stored queues of SpecEngine: the first article's audio lasts ten or
\* twenty seconds
EngineQueues ==
  {<<StoredArticle("a1"), NewArticle("a2")>>, <<LongArticle("a1"), NewArticle("a2")>>}

\* a stored queue of four articles, one of them with audio, and a stored
\* library holding that one
DragQueue ==
  <<NewArticle("a1"), NewArticle("a2"), StoredArticle("a3"), NewArticle("a4")>>

DragLibrary == <<StoredArticle("a3")>>

\* a stored queue of two articles with audio followed by one without
PlayQueue == <<StoredArticle("a1"), StoredArticle("a3"), NewArticle("a2")>>

NewCard(article, voice, language) ==
  [status |-> IF article.currentSummary # NoEntry THEN "ready" ELSE "idle",
   error |-> "none",
   summaryText |-> article.currentSummary.summaryText,
   audioBlob |-> article.currentSummary.audioBlob,
   localVoice |-> IF article.currentSummary # NoEntry
                  THEN article.currentSummary.voice ELSE voice,
   localLanguage |-> IF article.currentSummary # NoEntry
                     THEN article.currentSummary.language ELSE language,
   localPitch |-> article.currentSummary.pitch,
   feedback |-> article.currentSummary.feedback,
   starRating |-> article.currentSummary.starRating,
   undoStack |-> <<>>,
   isPlaying |-> FALSE,
   sourceNode |-> "none",
   onFinished |-> "none",
   audioBuffer |-> ""]

\* the clock state of a card: currentTime and duration (in units of five
\* seconds), the elapsed time of the current source on the output clock
\* (audioContext.currentTime - playbackStartTimeRef) and the pending
\* animation frame, which holds the isPlaying and duration values of the
\* render whose updateProgress was scheduled
NoFrame == [pending |-> FALSE, isPlaying |-> FALSE, duration |-> 0]

\* calls are the calls of startPlayback that await, sources the sources whose
\* ended event is still to come, current the identity of sourceNodeRef.current
\* (0: none), created the number of sources created, and mounted whether the
\* card is mounted
NewEngine ==
  [currentTime |-> 0, duration |-> 0, elapsed |-> 0, frame |-> NoFrame,
   calls |-> <<>>, sources |-> {}, current |-> 0, created |-> 0, mounted |-> TRUE]

\* the add-article form as useState leaves it; fetchError "none" is null
NewForm ==
  [newUrl |-> "", newTitle |-> "", newContent |-> "", newSource |-> "",
   isFetching |-> FALSE, fetchError |-> "none"]

----------------------------------------------------------------------------
(* Sequence helpers *)

SeqFilter(s, Keep(_)) == SelectSeq(s, Keep)

Range(s) == {s[i] : i \in 1..Len(s)}

IndexOfId(s, id) ==
  IF \E i \in 1..Len(s) : s[i].id = id
  THEN CHOOSE i \in 1..Len(s) : s[i].id = id /\ \A j \in 1..(i-1) : s[j].id # id
  ELSE 0

Ids(list) == {list[i].id : i \in 1..Len(list)}

currentList(s) == IF s.activeTab = "queue" THEN s.articles ELSE s.savedArticles

\* the article prop of the card of id: the article of that id in the list shown
ArticleOf(s, id) == currentList(s)[IndexOfId(currentList(s), id)]

----------------------------------------------------------------------------
(* localStorage: JSON.stringify and JSON.parse of the two lists *)

\* the optional fields of a summary entry; JSON.stringify leaves a property
\* out when its value is undefined
OptionalFields == {"audioBlob", "feedback", "starRating"}

stringifyEntry(e) ==
  [f \in {g \in DOMAIN e : ~(g \in OptionalFields /\ e[g] = NoEntry[g])} |-> e[f]]

stringifyArticle(a) ==
  [f \in {g \in DOMAIN a : /\ ~(g = "currentSummary" /\ a[g] = NoEntry)
                          /\ ~(g = "url" /\ a[g] = "none")} |->
     IF f = "currentSummary" THEN stringifyEntry(a[f])
     ELSE IF f = "summaryHistory"
          THEN [i \in 1..Len(a[f]) |-> stringifyEntry(a[f][i])]
          ELSE a[f]]

stringify(list) == [i \in 1..Len(list) |-> stringifyArticle(list[i])]

\* reading a property the parsed object does not have gives undefined
parseEntry(j) ==
  [f \in DOMAIN NoEntry |-> IF f \in DOMAIN j THEN j[f] ELSE NoEntry[f]]

parseArticle(j) ==
  [id |-> j.id, content |-> j.content,
   url |-> IF "url" \in DOMAIN j THEN j.url ELSE "none",
   currentSummary |-> IF "currentSummary" \in DOMAIN j
                      THEN parseEntry(j.currentSummary) ELSE NoEntry,
   summaryHistory |-> [i \in 1..Len(j.summaryHistory) |->
                         parseEntry(j.summaryHistory[i])]]

parse(text) == [i \in 1..Len(text) |-> parseArticle(text[i])]

\* a storage key holds no item (<<>>, getItem gives null) or one text
setItem(list) == <<stringify(list)>>

\* the two save effects after a render: an effect runs when its list changed
SaveEffects(old, s) ==
  [queue |-> IF s.articles # old.articles
             THEN setItem(s.articles) ELSE s.storage.queue,
   library |-> IF s.savedArticles # old.savedArticles
               THEN setItem(s.savedArticles) ELSE s.storage.library]

\* the storage as the mount of the app leaves it
Persisted(queue, library) ==
  [queue |-> setItem(queue), library |-> setItem(library)]

----------------------------------------------------------------------------
(* The state as one value, so that handlers compose *)

State ==
  [articles |-> articles, savedArticles |-> savedArticles,
   activeTab |-> activeTab,
   activePlaybackId |-> activePlaybackId, selectedLanguage |-> selectedLanguage,
   draggedItemIndex |-> draggedItemIndex, dragOverIndex |-> dragOverIndex,
   card |-> card, engine |-> engine, runs |-> runs, nextId |-> nextId, edits |-> edits,
   budget |-> budget, form |-> form, storage |-> storage, ev |-> <<>>]

Becomes(s) ==
  /\ articles' = s.articles
  /\ savedArticles' = s.savedArticles
  /\ activeTab' = s.activeTab
  /\ draggedItemIndex' = s.draggedItemIndex
  /\ dragOverIndex' = s.dragOverIndex
  /\ activePlaybackId' = s.activePlaybackId
  /\ selectedLanguage' = s.selectedLanguage
  /\ card' = s.card
  /\ engine' = s.engine
  /\ runs' = s.runs
  /\ nextId' = s.nextId
  /\ edits' = s.edits
  /\ budget' = s.budget
  /\ form' = s.form
  /\ storage' = SaveEffects(State, s)
  /\ ev' = s.ev

Emit(s, e) == [s EXCEPT !.ev = Append(@, e)]

----------------------------------------------------------------------------
(* App *)

\* a variant of the map that adds the article when no id matches
ReplaceOrAdd(list, a) ==
  IF \E i \in 1..Len(list) : list[i].id = a.id
  THEN [i \in 1..Len(list) |-> IF list[i].id = a.id THEN a ELSE list[i]]
  ELSE <<a>> \o list

ReplaceById(list, a) ==
  [i \in 1..Len(list) |-> IF list[i].id = a.id THEN a ELSE list[i]]

handleUpdateArticle(s, updatedArticle) ==
  [Emit(s, [op |-> "update", id |-> updatedArticle.id, article |-> updatedArticle])
     EXCEPT !.articles = ReplaceById(@, updatedArticle),
            !.savedArticles = ReplaceById(@, updatedArticle)]

InitWith(b) ==
  /\ budget = b
  /\ articles = StoredQueue
  /\ savedArticles = <<>>
  /\ activeTab = "queue"
  /\ draggedItemIndex = -1
  /\ dragOverIndex = -1
  /\ activePlaybackId = "none"
  /\ selectedLanguage = "English"
  /\ card = [id \in ArticleIds |->
               NewCard(StoredQueue[IndexOfId(StoredQueue, id)], selectedVoice, "English")]
  /\ engine = [id \in ArticleIds |-> NewEngine]
  /\ runs = [id \in ArticleIds |-> {}]
  /\ nextId = 1
  /\ edits = 0
  /\ form = NewForm
  /\ storage = Persisted(articles, savedArticles)
  /\ ev = <<>>

Init == InitWith([runs |-> MaxRuns, edits |-> MaxEdits])

InitLong == InitWith([runs |-> MaxRunsLong, edits |-> 0])

----------------------------------------------------------------------------
(* Generation pipeline *)

\* every pending run of card c has seen another event on its card
Touch(s, c) ==
  [s EXCEPT !.runs[c] = {[r EXCEPT !.clean = FALSE] : r \in @}]

\* handleGenerate up to its first await
GenerateStart(s, c) ==
  LET k == s.card[c]
      run == [rid |-> s.nextId, stage |-> "summarizing",
              article |-> ArticleOf(s, c),
              localLanguage |-> k.localLanguage,
              localVoice |-> k.localVoice,
              localPitch |-> k.localPitch,
              summaryText |-> "",
              from |-> k.status, clean |-> s.runs[c] = {}, mounted |-> TRUE]
      s0 == Touch(s, c)
      s1 == [s0 EXCEPT !.card[c].status = "summarizing",
                       !.card[c].error = "none",
                       !.runs[c] = @ \cup {run},
                       !.nextId = @ + 1]
  IN Emit(s1, [op |-> "summarize", id |-> c,
               content |-> run.article.content, language |-> run.localLanguage])

\* geminiService: response.text || 'Failed to generate summary.'
getSummarizedText(responseText) ==
  IF responseText = "" THEN "Failed to generate summary." ELSE responseText

\* a variant of generateSpeech that returns whatever the response carries
generateSpeechReturnsAnything(data) == FALSE

generateSpeechThrows(data) == data = ""

\* a variant of the catch that also drops the article's current summary
GenerateFailedDroppingCurrent(s, c, r, tag) ==
  [handleUpdateArticle(s, [ArticleOf(s, c) EXCEPT !.currentSummary = NoEntry])
     EXCEPT !.card[c].status = "error",
            !.card[c].error = tag,
            !.runs[c] = {[x EXCEPT !.clean = FALSE] : x \in (@ \ {r})}]

\* a state update of the card instance that run r belongs to: a no-op once
\* that instance is unmounted
SetCard(s, c, r, k) == IF r.mounted THEN [s EXCEPT !.card[c] = k] ELSE s

\* a variant of the catch of handleGenerate that leaves the status alone
GenerateFailedSilently(s, c, r, tag) ==
  [s EXCEPT !.runs[c] = {[x EXCEPT !.clean = FALSE] : x \in (@ \ {r})}]

GenerateFailed(s, c, r, tag) ==
  [SetCard(s, c, r, [s.card[c] EXCEPT !.status = "error", !.error = tag])
     EXCEPT !.runs[c] = {[x EXCEPT !.clean = FALSE] : x \in (@ \ {r})}]

\* handleGenerate between its two awaits
GenerateAfterSummary(s, c, r, summaryText) ==
  LET r2 == [r EXCEPT !.stage = "generating-audio", !.summaryText = summaryText]
      s1 == [SetCard(s, c, r, [s.card[c] EXCEPT !.summaryText = summaryText,
                                                !.status = "generating-audio",
                                                !.error = "none"])
               EXCEPT !.runs[c] = {[x EXCEPT !.clean = FALSE] : x \in (@ \ {r})}
                                    \cup {r2}]
  IN Emit(s1, [op |-> "synthesize", id |-> c, text |-> summaryText,
               voice |-> r.localVoice, pitch |-> r.localPitch])

\* a variant of newEntry that takes the header's voice, not the card's
newEntryHeaderVoice(r, audioBase64, id) ==
  [id |-> id, summaryText |-> r.summaryText, audioBlob |-> audioBase64,
   voice |-> selectedVoice, language |-> r.localLanguage,
   pitch |-> r.localPitch, feedback |-> "none", starRating |-> 0]

newEntry(r, audioBase64, id) ==
  [id |-> id, summaryText |-> r.summaryText, audioBlob |-> audioBase64,
   voice |-> r.localVoice, language |-> r.localLanguage,
   pitch |-> r.localPitch, feedback |-> "none", starRating |-> 0]

updatedHistory(article) ==
  IF article.currentSummary # NoEntry
  THEN <<article.currentSummary>> \o article.summaryHistory
  ELSE article.summaryHistory

\* the article value handleGenerate passes to onUpdateArticle
GeneratedArticle(r, audioBase64, id) ==
  [r.article EXCEPT !.currentSummary = newEntry(r, audioBase64, id),
                    !.summaryHistory = updatedHistory(r.article)]

\* a variant of the commit that leaves the card's feedback, star rating and
\* undo stack as they are
GenerateCommitKeepingRating(s, c, r, audioBase64) ==
  LET s1 == [SetCard(s, c, r, [s.card[c] EXCEPT !.audioBuffer = ""])
               EXCEPT !.runs[c] = {[x EXCEPT !.clean = FALSE] : x \in (@ \ {r})}]
      s2 == handleUpdateArticle(s1, GeneratedArticle(r, audioBase64, r.rid))
      s3 == Emit(s2, [op |-> "generated", id |-> c,
                      clean |-> r.clean /\ r.from = "idle"])
  IN SetCard(s3, c, r, [s3.card[c] EXCEPT !.summaryText = r.summaryText,
                                          !.audioBlob = audioBase64,
                                          !.status = "ready",
                                          !.error = "none"])

\* handleGenerate after generateSpeech returned audioBase64
GenerateCommit(s, c, r, audioBase64) ==
  LET s1 == [SetCard(s, c, r, [s.card[c] EXCEPT !.audioBuffer = ""])
               EXCEPT !.runs[c] = {[x EXCEPT !.clean = FALSE] : x \in (@ \ {r})}]
      s2 == handleUpdateArticle(s1, GeneratedArticle(r, audioBase64, r.rid))
      s3 == Emit(s2, [op |-> "generated", id |-> c,
                      clean |-> r.clean /\ r.from = "idle"])
  IN SetCard(s3, c, r, [s3.card[c] EXCEPT !.summaryText = r.summaryText,
                                          !.audioBlob = audioBase64,
                                          !.status = "ready",
                                          !.error = "none",
                                          !.feedback = "none",
                                          !.starRating = 0,
                                          !.undoStack = <<>>])

----------------------------------------------------------------------------
(* Playback engine and coordinator *)

\* a variant of handlePlaybackStarted that leaves the slot alone
handlePlaybackStartedIgnored(s, id) == Emit(s, [op |-> "started", id |-> id])

handlePlaybackStarted(s, id) ==
  [Emit(s, [op |-> "started", id |-> id]) EXCEPT !.activePlaybackId = id]

\* a variant of handlePlaybackStopped that clears the slot for any article
handlePlaybackStoppedClears(s, id) ==
  [Emit(s, [op |-> "stopped", id |-> id, active |-> s.activePlaybackId])
     EXCEPT !.activePlaybackId = "none"]

handlePlaybackStopped(s, id) ==
  [Emit(s, [op |-> "stopped", id |-> id, active |-> s.activePlaybackId])
     EXCEPT !.activePlaybackId = IF @ = id THEN "none" ELSE @]

\* a variant of handlePlaybackFinished that advances in either view
handlePlaybackFinishedAnyTab(s, id) ==
  LET index == IndexOfId(s.articles, id)
      s1 == Emit(s, [op |-> "finished", id |-> id])
  IN IF index # 0 /\ index < Len(s.articles)
     THEN LET nextArticle == s.articles[index + 1]
          IN IF nextArticle.currentSummary.audioBlob # ""
             THEN [s1 EXCEPT !.activePlaybackId = nextArticle.id]
             ELSE [s1 EXCEPT !.activePlaybackId = "none"]
     ELSE [s1 EXCEPT !.activePlaybackId = "none"]

handlePlaybackFinished(s, id) ==
  LET index == IndexOfId(s.articles, id)
      s1 == Emit(s, [op |-> "finished", id |-> id])
  IN IF s.activeTab # "queue"
     THEN [s1 EXCEPT !.activePlaybackId = "none"]
     ELSE IF index # 0 /\ index < Len(s.articles)
     THEN LET nextArticle == s.articles[index + 1]
          IN IF nextArticle.currentSummary.audioBlob # ""
             THEN [s1 EXCEPT !.activePlaybackId = nextArticle.id]
             ELSE [s1 EXCEPT !.activePlaybackId = "none"]
     ELSE [s1 EXCEPT !.activePlaybackId = "none"]

\* the onFinished prop of the render s: what its handlePlaybackFinished,
\* which closes over the queue and the tab of that render, sets the slot to
onFinishedOf(s, id) == handlePlaybackFinished(s, id).activePlaybackId

\* source.onended of the current source of card c: it calls the onFinished
\* prop of the render in which startPlayback created the source
onended(s, c) ==
  [Emit(s, [op |-> "finished", id |-> c])
     EXCEPT !.card[c].isPlaying = FALSE,
            !.card[c].sourceNode = "dead",
            !.activePlaybackId = s.card[c].onFinished]

\* a variant of stopPlayback that also rewinds the elapsed time
stopPlaybackRewinding(s, c) ==
  LET s1 == [s EXCEPT !.card[c].sourceNode = IF @ = "none" THEN "none" ELSE "dead",
                      !.card[c].isPlaying = FALSE,
                      !.engine[c].currentTime = 0,
                      !.engine[c].frame = NoFrame]
  IN handlePlaybackStopped(s1, c)

stopPlayback(s, c) ==
  LET s1 == [s EXCEPT !.card[c].sourceNode = IF @ = "none" THEN "none" ELSE "dead",
                      !.card[c].isPlaying = FALSE,
                      !.engine[c].frame = NoFrame]
  IN handlePlaybackStopped(s1, c)

\* startPlayback run to its end; ok = FALSE when a step of it throws
startPlayback(s, c, ok) ==
  IF s.card[c].audioBlob = "" THEN s
  ELSE IF ~ok
  THEN [s EXCEPT !.card[c].status = "error", !.card[c].error = "playback"]
  ELSE LET s1 == [s EXCEPT !.card[c].audioBuffer =
                               IF @ = "" THEN s.card[c].audioBlob ELSE @,
                           !.card[c].sourceNode = "live",
                           !.card[c].onFinished = onFinishedOf(s, c),
                           !.card[c].isPlaying = TRUE]
       IN handlePlaybackStarted(s1, c)

\* a variant in which the isActivePlayback effect never runs again
ActiveDepsNeverChanged(p, q, c) == FALSE

ActiveDepsChanged(p, q, c) ==
  \/ (p.activePlaybackId = c) # (q.activePlaybackId = c)
  \/ p.card[c].status # q.card[c].status

\* the isActivePlayback effect, stop branch, on the cards ids
RECURSIVE StopInactive(_, _, _)
StopInactive(p, s, ids) ==
  IF ids = {} THEN s
  ELSE LET c == CHOOSE x \in ids : TRUE
           s1 == IF /\ s.activePlaybackId # c
                    /\ s.card[c].isPlaying
                    /\ ActiveDepsChanged(p, s, c)
                 THEN stopPlayback(s, c) ELSE s
       IN StopInactive(p, s1, ids \ {c})

\* the voice / language effect (deps: voice, language, status): a card that
\* is idle after the handler follows the header's choice if its status or
\* the header's language changed
SyncIdle(p, q) ==
  [q EXCEPT !.card = [c \in DOMAIN q.card |->
     IF /\ q.card[c].status = "idle"
        /\ (p.card[c].status # "idle" \/ p.selectedLanguage # q.selectedLanguage)
     THEN [q.card[c] EXCEPT !.localVoice = selectedVoice,
                            !.localLanguage = q.selectedLanguage]
     ELSE q.card[c]]]

Edit(s) == [s EXCEPT !.edits = @ + 1]

\* the effects that run after a handler took state p to state q; the start
\* branch of the isActivePlayback effect (deps: isActivePlayback, status)
\* calls startPlayback, which succeeds or fails
Effects(p, q) ==
  LET q1 == StopInactive(p, SyncIdle(p, q), DOMAIN q.card)
      starters == {c \in DOMAIN q.card :
                     /\ q1.activePlaybackId = c
                     /\ ~q1.card[c].isPlaying
                     /\ q1.card[c].status = "ready"
                     /\ (p.activePlaybackId # c \/ p.card[c].status # "ready")}
  IN IF starters = {} THEN {q1}
     ELSE {startPlayback(q1, CHOOSE c \in starters : TRUE, ok) : ok \in BOOLEAN}

Step(q) == \E t \in Effects(State, q) : Becomes(t)

----------------------------------------------------------------------------
(* Card handlers *)

\* a variant of handleRestore that does not keep the previous current entry
RestoredArticleDroppingCurrent(article, entry) ==
  LET Keep(e) == e.id # entry.id
  IN [article EXCEPT !.currentSummary = entry,
                     !.summaryHistory = SeqFilter(article.summaryHistory, Keep)]

RestoredArticle(article, entry) ==
  LET oldCurrent == article.currentSummary
      Keep(e) == e.id # entry.id
      filteredHistory == SeqFilter(article.summaryHistory, Keep)
      newHistory == IF oldCurrent # NoEntry
                    THEN <<oldCurrent>> \o filteredHistory
                    ELSE filteredHistory
  IN [article EXCEPT !.currentSummary = entry, !.summaryHistory = newHistory]

Restore(s, c, entry) ==
  LET s1 == handleUpdateArticle(Touch(s, c), RestoredArticle(ArticleOf(s, c), entry))
      s2 == [s1 EXCEPT !.card[c].summaryText = entry.summaryText,
                       !.card[c].audioBlob = entry.audioBlob,
                       !.card[c].status = "ready",
                       !.card[c].error = "none",
                       !.card[c].localVoice = entry.voice,
                       !.card[c].localLanguage = entry.language,
                       !.card[c].localPitch = entry.pitch,
                       !.card[c].feedback = entry.feedback,
                       !.card[c].starRating = entry.starRating,
                       !.card[c].undoStack = <<>>,
                       !.card[c].audioBuffer = "",
                       !.engine[c].currentTime = 0,
                       !.engine[c].duration = 0]
  IN IF s.card[c].isPlaying THEN stopPlayback(s2, c) ELSE s2

ClearedArticle(article) == [article EXCEPT !.summaryHistory = <<>>]

FeedbackArticle(article, nextFeedback) ==
  [article EXCEPT !.currentSummary.feedback = nextFeedback]

Feedback(s, c, type) ==
  LET nextFeedback == IF s.card[c].feedback = type THEN "none" ELSE type
      s1 == [Touch(s, c) EXCEPT !.card[c].feedback = nextFeedback,
                                !.card[c].undoStack =
                                   Append(@, [feedback |-> s.card[c].feedback,
                                              starRating |-> s.card[c].starRating])]
      article == ArticleOf(s, c)
  IN IF article.currentSummary # NoEntry
     THEN handleUpdateArticle(s1, FeedbackArticle(article, nextFeedback))
     ELSE s1

\* the retry button of the error panel
RetryClick(s, c, ok) ==
  IF s.card[c].error = "playback"
  THEN startPlayback(Touch(s, c), c, ok)
  ELSE GenerateStart(s, c)

----------------------------------------------------------------------------
(* Actions *)

handleGenerate(c) ==
  /\ card[c].status \in {"idle", "error"}
  /\ nextId <= budget.runs
  /\ Step(GenerateStart(State, c))

SummarizerResolves(c) ==
  \E r \in runs[c], text \in SummaryResponses :
    /\ r.stage = "summarizing"
    /\ Step(GenerateAfterSummary(
              Emit(State, [op |-> "summaryResponse", id |-> c, text |-> text]),
              c, r, getSummarizedText(text)))

SummarizerRejects(c) ==
  \E r \in runs[c] :
    /\ r.stage = "summarizing"
    /\ Step(GenerateFailed(Emit(State, [op |-> "summarizeRejected", id |-> c]),
                            c, r, "summarization"))

SynthesizerResolves(c) ==
  \E r \in runs[c], data \in SpeechResponses :
    /\ r.stage = "generating-audio"
    /\ LET s1 == Emit(State, [op |-> "speechResponse", id |-> c, data |-> data])
       IN IF generateSpeechThrows(data)
          THEN Step(GenerateFailed(s1, c, r, "audio"))
          ELSE Step(GenerateCommit(s1, c, r, data))

SynthesizerRejects(c) ==
  \E r \in runs[c] :
    /\ r.stage = "generating-audio"
    /\ Step(GenerateFailed(Emit(State, [op |-> "speechRejected", id |-> c]),
                            c, r, "audio"))

Retry(c) ==
  /\ card[c].status = "error"
  /\ card[c].error = "playback" \/ nextId <= budget.runs
  /\ \E ok \in BOOLEAN : Step(RetryClick(State, c, ok))

Reset(c) ==
  /\ card[c].status = "error"
  /\ Step([Touch(State, c) EXCEPT !.card[c].status = "idle"])

setLocalVoice(c) ==
  /\ card[c].status \in {"idle", "error"}
  /\ edits < budget.edits
  /\ \E v \in Voices \ {card[c].localVoice} : Step(Edit([Touch(State, c) EXCEPT !.card[c].localVoice = v]))

setLocalPitch(c) ==
  /\ card[c].status \in {"idle", "error"}
  /\ edits < budget.edits
  /\ \E p \in Pitches \ {card[c].localPitch} : Step(Edit([Touch(State, c) EXCEPT !.card[c].localPitch = p]))

setSelectedLanguage ==
  /\ edits < budget.edits
  /\ \E l \in Languages \ {selectedLanguage} : Step(Edit([State EXCEPT !.selectedLanguage = l]))

handleRestore(c) ==
  \E entry \in Range(ArticleOf(State, c).summaryHistory) :
    Step(Restore(State, c, entry))

handleClearHistory(c) ==
  /\ Len(ArticleOf(State, c).summaryHistory) > 0
  /\ Step(handleUpdateArticle(Touch(State, c), ClearedArticle(ArticleOf(State, c))))

handleFeedback(c) ==
  /\ card[c].status = "ready"
  /\ edits < budget.edits
  /\ \E type \in FeedbackTypes : Step(Edit(Feedback(State, c, type)))

togglePlayback(c) ==
  /\ card[c].status = "ready"
  /\ IF card[c].isPlaying
     THEN Step(stopPlayback(Touch(State, c), c))
     ELSE \E ok \in BOOLEAN : Step(startPlayback(Touch(State, c), c, ok))

\* the current source plays to its end: its onended callback
SourceEnded(c) ==
  /\ card[c].sourceNode = "live"
  /\ Step(onended(Touch(State, c), c))

\* toggleSaveForLater(article); a url of "none" is undefined, and undefined
\* === undefined holds
ToggleSave(s, article) ==
  LET Same(a) == a.id = article.id \/ a.url = article.url
      Other(a) == a.id # article.id /\ a.url # article.url
      alreadySaved == \E i \in 1..Len(s.savedArticles) : Same(s.savedArticles[i])
  IN [s EXCEPT !.savedArticles =
        IF alreadySaved THEN SeqFilter(@, Other) ELSE <<article>> \o @]

toggleSaveForLater(c) ==
  /\ edits < budget.edits
  /\ Step(Edit(ToggleSave(State, ArticleOf(State, c))))

Pipeline(c) ==
  \/ handleGenerate(c)
  \/ SummarizerResolves(c)
  \/ SummarizerRejects(c)
  \/ SynthesizerResolves(c)
  \/ SynthesizerRejects(c)
  \/ Retry(c)
  \/ Reset(c)

History(c) ==
  \/ handleRestore(c)
  \/ handleClearHistory(c)

Playback(c) ==
  \/ togglePlayback(c)
  \/ SourceEnded(c)

Settings(c) ==
  \/ setLocalVoice(c)
  \/ setLocalPitch(c)
  \/ handleFeedback(c)

Next ==
  \/ \E c \in Cards : Pipeline(c)
  \/ \E c \in Cards : History(c)
  \/ \E c \in Cards : Playback(c)
  \/ \E c \in Cards : Settings(c)
  \/ setSelectedLanguage
  \/ \E c \in ArticleIds : toggleSaveForLater(c)

Spec == Init /\ [][Next]_vars

NextLong ==
  \/ \E c \in Cards : Pipeline(c)
  \/ \E c \in Cards : History(c)
  \/ \E c \in Cards : Playback(c)

SpecLong == InitLong /\ [][NextLong]_vars

----------------------------------------------------------------------------
(* Tabs and drag and drop *)

\* the ids of the cards on the screen
Shown == Ids(currentList(State))

\* the tab buttons: the cards of the articles in both lists stay mounted
\* (same key), the others are unmounted, their sources stopped by the
\* cleanup effect without a report, and the new list's cards are mounted
TabClick(s, tab) ==
  LET old == currentList(s)
      new == currentList([s EXCEPT !.activeTab = tab])
      Mounted(c) == NewCard(new[IndexOfId(new, c)], selectedVoice, s.selectedLanguage)
      Unmounted(c) == NewCard(old[IndexOfId(old, c)], selectedVoice, s.selectedLanguage)
  IN [Emit(s, [op |-> "tab", id |-> tab])
        EXCEPT !.activeTab = tab,
               !.activePlaybackId = "none",
               !.card = [c \in DOMAIN s.card |->
                           IF c \in Ids(old) \cap Ids(new) THEN s.card[c]
                           ELSE IF c \in Ids(new) THEN Mounted(c)
                           ELSE IF c \in Ids(old) THEN Unmounted(c)
                           ELSE s.card[c]],
               !.runs = [c \in DOMAIN s.runs |->
                           IF c \in Ids(old) \cap Ids(new) THEN s.runs[c]
                           ELSE {[r EXCEPT !.mounted = FALSE] : r \in s.runs[c]}]]

\* list.splice(index, 1) on a copy, indices from 0: <<removed items, rest>>
SpliceOut(list, index) ==
  IF index < Len(list)
  THEN <<<<list[index + 1]>>,
         [k \in 1..(Len(list) - 1) |-> IF k <= index THEN list[k] ELSE list[k + 1]]>>
  ELSE <<<<>>, list>>

\* a variant of the second splice that appends
SpliceInAtEnd(list, index, items) == list \o items

SpliceIn(list, index, items) ==
  LET at == IF index < Len(list) THEN index ELSE Len(list)
  IN SubSeq(list, 1, at) \o items \o SubSeq(list, at + 1, Len(list))

\* a variant of onDrop that also frees the playback slot
DropFreeingSlot(s, index) ==
  IF s.draggedItemIndex = -1 \/ s.draggedItemIndex = index THEN s
  ELSE LET out == SpliceOut(s.articles, s.draggedItemIndex)
       IN [Emit(s, [op |-> "drop", id |-> out[1][1].id,
                    from |-> s.draggedItemIndex, to |-> index])
             EXCEPT !.articles = SpliceIn(out[2], index, out[1]),
                    !.activePlaybackId = "none",
                    !.draggedItemIndex = -1,
                    !.dragOverIndex = -1]

Drop(s, index) ==
  IF s.draggedItemIndex = -1 \/ s.draggedItemIndex = index THEN s
  ELSE LET out == SpliceOut(s.articles, s.draggedItemIndex)
       IN [Emit(s, [op |-> "drop", id |-> out[1][1].id,
                    from |-> s.draggedItemIndex, to |-> index])
             EXCEPT !.articles = SpliceIn(out[2], index, out[1]),
                    !.draggedItemIndex = -1,
                    !.dragOverIndex = -1]

Indices == 0..(Len(currentList(State)) - 1)

\* a tab button; a drag in progress holds the pointer
setActiveTab(tab) ==
  /\ draggedItemIndex = -1
  /\ Step(TabClick(State, tab))

\* the cards are draggable in the queue view only
onDragStart(index) ==
  /\ activeTab = "queue"
  /\ draggedItemIndex = -1
  /\ Step([State EXCEPT !.draggedItemIndex = index])

onDragOver(index) ==
  Step(IF dragOverIndex # index THEN [State EXCEPT !.dragOverIndex = index]
       ELSE State)

onDragEnd ==
  /\ draggedItemIndex # -1
  /\ Step([State EXCEPT !.draggedItemIndex = -1, !.dragOverIndex = -1])

onDrop(index) == Step(Drop(State, index))

InitPlay ==
  /\ budget = [runs |-> 0, edits |-> MaxSaves]
  /\ articles = PlayQueue
  /\ savedArticles = <<>>
  /\ activeTab = "queue"
  /\ draggedItemIndex = -1
  /\ dragOverIndex = -1
  /\ activePlaybackId = "none"
  /\ selectedLanguage = "English"
  /\ card = [id \in Ids(PlayQueue) |->
               NewCard(PlayQueue[IndexOfId(PlayQueue, id)], selectedVoice, "English")]
  /\ engine = [id \in Ids(PlayQueue) |-> NewEngine]
  /\ runs = [id \in Ids(PlayQueue) |-> {}]
  /\ nextId = 1
  /\ edits = 0
  /\ form = NewForm
  /\ storage = Persisted(articles, savedArticles)
  /\ ev = <<>>

NextPlay ==
  \/ \E c \in Shown : Playback(c)
  \/ \E c \in Shown : Retry(c)
  \/ \E c \in Shown : activeTab = "queue" /\ toggleSaveForLater(c)
  \/ \E tab \in {"queue", "library"} : setActiveTab(tab)
  \/ \E index \in Indices : onDragStart(index)
  \/ \E index \in Indices : onDrop(index)
  \/ onDragEnd

SpecPlay == InitPlay /\ [][NextPlay]_vars

----------------------------------------------------------------------------
(* The playback engine with its clock (the fuller card variant) *)

SkipSeconds == 3                          \* the skip buttons: 15 seconds
MaxElapsed == 4                           \* the output clock is read up to here

\* audioBuffer.duration of the decoded payload, in units of five seconds
BufferDuration(blob) == IF blob = "pcm20" THEN 4 ELSE 2

Max(a, b) == IF a >= b THEN a ELSE b

Min(a, b) == IF a <= b THEN a ELSE b

\* a variant of the clamp without the upper end
ClampBelow(x, duration) == Max(0, x)

\* Math.max(0, Math.min(duration, x))
Clamp(x, duration) == Max(0, Min(duration, x))

\* the buffer startPlayback plays: the cached one, or the payload decoded
BufferOf(s, c) ==
  IF s.card[c].audioBuffer = "" THEN s.card[c].audioBlob ELSE s.card[c].audioBuffer

\* currentTime >= duration ? 0 : currentTime
ResumeTime(s, c) ==
  IF s.engine[c].currentTime >= s.engine[c].duration THEN 0
  ELSE s.engine[c].currentTime

\* startPlayback(offset) called in render s and run to its end
startPlaybackAt(s, c, offset, ok) ==
  IF s.card[c].audioBlob = "" THEN s
  ELSE IF ~ok THEN startPlayback(s, c, FALSE)
  ELSE LET bufDuration == BufferDuration(BufferOf(s, c))
           safeOffset == Clamp(offset, bufDuration)
           s1 == [s EXCEPT !.engine[c].duration = bufDuration,
                           !.engine[c].currentTime = safeOffset]
       IN IF safeOffset >= bufDuration
          THEN handlePlaybackFinished(
                 [s1 EXCEPT !.card[c].audioBuffer = BufferOf(s, c),
                            !.card[c].sourceNode = IF @ = "none" THEN "none" ELSE "dead",
                            !.card[c].isPlaying = FALSE], c)
          ELSE [startPlayback(s1, c, TRUE)
                  EXCEPT !.engine[c].elapsed = safeOffset,
                         !.engine[c].frame =
                            [pending |-> TRUE,
                             isPlaying |-> s.card[c].isPlaying,
                             duration |-> s.engine[c].duration]]

\* a variant of handleSkip that moves the time and never restarts the source
SkipWithoutRestart(s, c, seconds, ok) ==
  [s EXCEPT !.engine[c].currentTime =
              Clamp(s.engine[c].currentTime + seconds, s.engine[c].duration)]

Skip(s, c, seconds, ok) ==
  LET nextTime == Clamp(s.engine[c].currentTime + seconds, s.engine[c].duration)
      s1 == [s EXCEPT !.engine[c].currentTime = nextTime]
  IN IF s.card[c].isPlaying THEN startPlaybackAt(s1, c, nextTime, ok) ELSE s1

\* the pending animation frame runs the updateProgress it holds
Progress(s, c) ==
  LET f == s.engine[c].frame
  IN IF ~f.isPlaying THEN [s EXCEPT !.engine[c].frame = NoFrame]
     ELSE IF s.engine[c].elapsed >= f.duration
     THEN [s EXCEPT !.engine[c].currentTime = f.duration,
                    !.engine[c].frame = NoFrame,
                    !.card[c].isPlaying = FALSE]
     ELSE [s EXCEPT !.engine[c].currentTime = Max(0, s.engine[c].elapsed)]

\* source.onended of the current source, with the clock state
Ended(s, c) ==
  [onended(s, c) EXCEPT !.engine[c].currentTime = BufferDuration(BufferOf(s, c)),
                        !.engine[c].frame = NoFrame]

TimeChanged(p, q, c) ==
  \/ p.engine[c].currentTime # q.engine[c].currentTime
  \/ p.engine[c].duration # q.engine[c].duration

\* the isActivePlayback effect of the fuller variant (deps: isActivePlayback,
\* status, currentTime, duration), stop branch, on the cards ids
RECURSIVE StopInactiveTimed(_, _, _)
StopInactiveTimed(p, s, ids) ==
  IF ids = {} THEN s
  ELSE LET c == CHOOSE x \in ids : TRUE
           s1 == IF /\ s.activePlaybackId # c
                    /\ s.card[c].isPlaying
                    /\ ActiveDepsChanged(p, s, c) \/ TimeChanged(p, s, c)
                 THEN stopPlayback(s, c) ELSE s
       IN StopInactiveTimed(p, s1, ids \ {c})

\* the effects of the fuller variant after a handler took p to q
EngineEffects(p, q) ==
  LET q1 == StopInactiveTimed(p, SyncIdle(p, q), DOMAIN q.card)
      starters == {c \in DOMAIN q.card :
                     /\ q1.activePlaybackId = c
                     /\ ~q1.card[c].isPlaying
                     /\ q1.card[c].status = "ready"
                     /\ ActiveDepsChanged(p, q1, c) \/ TimeChanged(p, q1, c)}
  IN IF starters = {} THEN {q1}
     ELSE LET c == CHOOSE x \in starters : TRUE
          IN {startPlaybackAt(q1, c, ResumeTime(q1, c), ok) : ok \in BOOLEAN}

StepEngine(q) == \E t \in EngineEffects(State, q) : Becomes(t)

togglePlaybackTimed(c) ==
  /\ card[c].status = "ready"
  /\ IF card[c].isPlaying
     THEN StepEngine(stopPlayback(State, c))
     ELSE \E ok \in BOOLEAN :
            StepEngine(startPlaybackAt(State, c, ResumeTime(State, c), ok))

handleSkip(c, seconds) ==
  /\ card[c].status = "ready"
  /\ \E ok \in BOOLEAN : StepEngine(Skip(State, c, seconds, ok))

handleReplay(c) ==
  /\ card[c].status = "ready"
  /\ \E ok \in BOOLEAN : StepEngine(startPlaybackAt(State, c, 0, ok))

\* the retry button of a playback error
RetryPlayback(c) ==
  /\ card[c].status = "error"
  /\ card[c].error = "playback"
  /\ \E ok \in BOOLEAN :
       StepEngine(startPlaybackAt(State, c, engine[c].currentTime, ok))

updateProgress(c) ==
  /\ engine[c].frame.pending
  /\ StepEngine(Progress(State, c))

\* the output clock advances by one unit; a source ends at its buffer's end
Tick(c) ==
  /\ card[c].sourceNode = "live" \/ engine[c].frame.pending
  /\ engine[c].elapsed <
       (IF card[c].sourceNode = "live"
        THEN BufferDuration(BufferOf(State, c)) ELSE MaxElapsed)
  /\ StepEngine([State EXCEPT !.engine[c].elapsed = @ + 1])

sourceEnds(c) ==
  /\ card[c].sourceNode = "live"
  /\ engine[c].elapsed >= BufferDuration(BufferOf(State, c))
  /\ StepEngine(Ended(State, c))

InitEngine ==
  /\ budget = [runs |-> 0, edits |-> 0]
  /\ articles \in EngineQueues
  /\ savedArticles = <<>>
  /\ activeTab = "queue"
  /\ draggedItemIndex = -1
  /\ dragOverIndex = -1
  /\ activePlaybackId = "none"
  /\ selectedLanguage = "English"
  /\ card = [id \in ArticleIds |->
               NewCard(articles[IndexOfId(articles, id)], selectedVoice, "English")]
  /\ engine = [id \in ArticleIds |-> NewEngine]
  /\ runs = [id \in ArticleIds |-> {}]
  /\ nextId = 1
  /\ edits = 0
  /\ form = NewForm
  /\ storage = Persisted(articles, savedArticles)
  /\ ev = <<>>

NextEngine ==
  \/ \E c \in Cards : togglePlaybackTimed(c)
  \/ \E c \in Cards, seconds \in {-SkipSeconds, SkipSeconds} : handleSkip(c, seconds)
  \/ \E c \in Cards : handleReplay(c)
  \/ \E c \in Cards : RetryPlayback(c)
  \/ \E c \in Cards : updateProgress(c)
  \/ \E c \in Cards : Tick(c)
  \/ \E c \in Cards : sourceEnds(c)

SpecEngine == InitEngine /\ [][NextEngine]_vars

----------------------------------------------------------------------------
(* The playback engine with its clock (components/ArticleCard.tsx) *)

CardRuns == 1                             \* generation runs in SpecCard

\* startPlayback(offset) of ArticleCard.tsx called in render s
startPlaybackCard(s, c, offset, ok) ==
  IF s.card[c].audioBlob = "" THEN s
  ELSE IF ~ok THEN startPlayback(s, c, FALSE)
  ELSE LET bufDuration == BufferDuration(BufferOf(s, c))
           safeOffset == Clamp(offset, bufDuration)
           s1 == [s EXCEPT !.engine[c].duration = bufDuration,
                           !.engine[c].currentTime = safeOffset]
       IN [startPlayback(s1, c, TRUE)
             EXCEPT !.engine[c].elapsed = safeOffset,
                    !.engine[c].frame =
                       [pending |-> TRUE,
                        isPlaying |-> s.card[c].isPlaying,
                        duration |-> s.engine[c].duration]]

\* updateProgress of ArticleCard.tsx: the end is read from the buffer
ProgressCard(s, c) ==
  LET f == s.engine[c].frame
  IN IF ~f.isPlaying THEN [s EXCEPT !.engine[c].frame = NoFrame]
     ELSE IF s.engine[c].elapsed >= BufferDuration(s.card[c].audioBuffer)
     THEN [s EXCEPT !.engine[c].currentTime = BufferDuration(s.card[c].audioBuffer),
                    !.engine[c].frame = NoFrame,
                    !.card[c].isPlaying = FALSE]
     ELSE [s EXCEPT !.engine[c].currentTime = Max(0, s.engine[c].elapsed)]

\* the effects of ArticleCard.tsx after a handler took p to q
EffectsCard(p, q) ==
  LET q1 == StopInactive(p, SyncIdle(p, q), DOMAIN q.card)
      starters == {c \in DOMAIN q.card :
                     /\ q1.activePlaybackId = c
                     /\ ~q1.card[c].isPlaying
                     /\ q1.card[c].status = "ready"
                     /\ ActiveDepsChanged(p, q1, c)}
  IN IF starters = {} THEN {q1}
     ELSE LET c == CHOOSE x \in starters : TRUE
          IN {startPlaybackCard(q1, c, ResumeTime(q1, c), ok) : ok \in BOOLEAN}

StepCard(q) == \E t \in EffectsCard(State, q) : Becomes(t)

togglePlaybackCard(c) ==
  /\ card[c].status = "ready"
  /\ IF card[c].isPlaying
     THEN StepCard(stopPlayback(State, c))
     ELSE \E ok \in BOOLEAN :
            StepCard(startPlaybackCard(State, c, ResumeTime(State, c), ok))

updateProgressCard(c) ==
  /\ engine[c].frame.pending
  /\ StepCard(ProgressCard(State, c))

TickCard(c) ==
  /\ card[c].sourceNode = "live" \/ engine[c].frame.pending
  /\ engine[c].elapsed <
       (IF card[c].sourceNode = "live"
        THEN BufferDuration(BufferOf(State, c)) ELSE MaxElapsed)
  /\ StepCard([State EXCEPT !.engine[c].elapsed = @ + 1])

sourceEndsCard(c) ==
  /\ card[c].sourceNode = "live"
  /\ engine[c].elapsed >= BufferDuration(BufferOf(State, c))
  /\ StepCard(Ended(State, c))

handleGenerateCard(c) ==
  /\ card[c].status \in {"idle", "error"}
  /\ nextId <= budget.runs
  /\ StepCard(GenerateStart(State, c))

SummarizerResolvesCard(c) ==
  \E r \in runs[c], text \in SummaryResponses :
    /\ r.stage = "summarizing"
    /\ StepCard(GenerateAfterSummary(
                  Emit(State, [op |-> "summaryResponse", id |-> c, text |-> text]),
                  c, r, getSummarizedText(text)))

SynthesizerResolvesCard(c) ==
  \E r \in runs[c] :
    /\ r.stage = "generating-audio"
    /\ StepCard(GenerateCommit(
                  Emit(State, [op |-> "speechResponse", id |-> c, data |-> "pcm"]),
                  c, r, "pcm"))

InitCard ==
  /\ budget = [runs |-> CardRuns, edits |-> 0]
  /\ articles \in EngineQueues
  /\ savedArticles = <<>>
  /\ activeTab = "queue"
  /\ draggedItemIndex = -1
  /\ dragOverIndex = -1
  /\ activePlaybackId = "none"
  /\ selectedLanguage = "English"
  /\ card = [id \in ArticleIds |->
               NewCard(articles[IndexOfId(articles, id)], selectedVoice, "English")]
  /\ engine = [id \in ArticleIds |-> NewEngine]
  /\ runs = [id \in ArticleIds |-> {}]
  /\ nextId = 1
  /\ edits = 0
  /\ form = NewForm
  /\ storage = Persisted(articles, savedArticles)
  /\ ev = <<>>

NextCard ==
  \/ \E c \in Cards : togglePlaybackCard(c)
  \/ \E c \in Cards : updateProgressCard(c)
  \/ \E c \in Cards : TickCard(c)
  \/ \E c \in Cards : sourceEndsCard(c)
  \/ \E c \in Cards : handleGenerateCard(c)
  \/ \E c \in Cards : SummarizerResolvesCard(c)
  \/ \E c \in Cards : SynthesizerResolvesCard(c)

SpecCard == InitCard /\ [][NextCard]_vars

InitDrag ==
  /\ budget = [runs |-> 0, edits |-> 0]
  /\ articles = DragQueue
  /\ savedArticles = DragLibrary
  /\ activeTab = "queue"
  /\ draggedItemIndex = -1
  /\ dragOverIndex = -1
  /\ activePlaybackId = "none"
  /\ selectedLanguage = "English"
  /\ card = [id \in Ids(DragQueue) |->
               NewCard(DragQueue[IndexOfId(DragQueue, id)], selectedVoice, "English")]
  /\ engine = [id \in Ids(DragQueue) |-> NewEngine]
  /\ runs = [id \in Ids(DragQueue) |-> {}]
  /\ nextId = 1
  /\ edits = 0
  /\ form = NewForm
  /\ storage = Persisted(articles, savedArticles)
  /\ ev = <<>>

NextDrag ==
  \/ \E index \in Indices : onDragStart(index)
  \/ \E index \in Indices : onDragOver(index)
  \/ \E index \in Indices : onDrop(index)
  \/ onDragEnd
  \/ \E c \in Shown : Playback(c)

SpecDrag == InitDrag /\ [][NextDrag]_vars

----------------------------------------------------------------------------
(* The collections: update, save and remove *)

ListRuns == 1                             \* generation runs in SpecLists
ListEdits == 2                            \* save clicks in SpecLists

\* removeArticle / removeSavedArticle, as the card of the list shown calls
\* it; the card is unmounted
Remove(s, id) ==
  LET Other(a) == a.id # id
      s1 == IF s.activeTab = "queue"
            THEN [s EXCEPT !.articles = SeqFilter(@, Other)]
            ELSE [s EXCEPT !.savedArticles = SeqFilter(@, Other)]
  IN [Emit(s1, [op |-> "remove", id |-> id])
        EXCEPT !.activePlaybackId = IF @ = id THEN "none" ELSE @,
               !.card[id] = NewCard(ArticleOf(s, id), selectedVoice, s.selectedLanguage),
               !.engine[id] = NewEngine,
               !.runs[id] = {[r EXCEPT !.mounted = FALSE] : r \in @}]

onRemove(c) == Step(Remove(State, c))

InitLists == InitWith([runs |-> ListRuns, edits |-> ListEdits])

NextLists ==
  \/ \E c \in Shown : handleGenerate(c)
  \/ \E c \in Shown : handleRestore(c)
  \/ \E c \in Shown : handleClearHistory(c)
  \/ \E c \in ArticleIds : SummarizerResolves(c)
  \/ \E c \in ArticleIds : SynthesizerResolves(c)
  \/ \E c \in Shown : toggleSaveForLater(c)
  \/ \E c \in Shown : onRemove(c)
  \/ \E tab \in {"queue", "library"} : setActiveTab(tab)

SpecLists == InitLists /\ [][NextLists]_vars

----------------------------------------------------------------------------
(* The add-article form: URL validation and extraction *)

TRUSTED_NEWS_DOMAINS == {"bbc.com", "time.com", "npr.org"}

\* the texts typed into the url field
Urls ==
  {"https://bbc.com/news/world-12345", "ftp://x.com", "not a url",
   "https://www.bbc.com/", "https://news.bbc.com/", "https://evilbbc.com/",
   "https://x.com/", "https://x.com/news", "https://x.com/story/1",
   "https://x.com/2024/01/a", "https://x.com/2024",
   "http://x.com/a-long-opaque-slug-1"}

\* response.text of the extraction call
ExtractResponses == {"", "HEADLINE: h CONTENT: c"}

Digits == {"0", "1", "2", "3", "4", "5", "6", "7", "8", "9"}

Letters ==
  {"a", "b", "c", "d", "e", "f", "g", "h", "i", "j", "k", "l", "m",
   "n", "o", "p", "q", "r", "s", "t", "u", "v", "w", "x", "y", "z"}

\* the class [\w-] on lower-case text
SlugChars == Letters \cup Digits \cup {"_", "-"}

Keywords == {"article", "news", "story", "content", "post"}

SlugLength == 15

At(str, i) == SubSeq(str, i, i)

\* String.prototype.indexOf, from 1; 0 when sub does not occur
IndexOf(str, sub) ==
  LET hits == {i \in 1..(Len(str) - Len(sub) + 1) :
                 SubSeq(str, i, i + Len(sub) - 1) = sub}
  IN IF hits = {} THEN 0 ELSE CHOOSE i \in hits : \A j \in hits : i <= j

includes(str, sub) == IndexOf(str, sub) # 0

endsWith(str, suffix) ==
  /\ Len(suffix) <= Len(str)
  /\ SubSeq(str, Len(str) - Len(suffix) + 1, Len(str)) = suffix

\* str.replace(sub, ''): the first occurrence is removed
replaceFirst(str, sub) ==
  LET i == IndexOf(str, sub)
  IN IF i = 0 THEN str
     ELSE SubSeq(str, 1, i - 1) \o SubSeq(str, i + Len(sub), Len(str))

\* new URL(url) on the texts of Urls: scheme, "//", host, path; a text
\* without a scheme throws
ParseUrl(url) ==
  LET i == IndexOf(url, "://")
      rest == SubSeq(url, i + 3, Len(url))
      j == IndexOf(rest, "/")
  IN IF i <= 1 \/ includes(url, " ")
     THEN [ok |-> FALSE, protocol |-> "", hostname |-> "", pathname |-> ""]
     ELSE [ok |-> TRUE,
           protocol |-> SubSeq(url, 1, i),
           hostname |-> IF j = 0 THEN rest ELSE SubSeq(rest, 1, j - 1),
           pathname |-> IF j = 0 THEN "/" ELSE SubSeq(rest, j, Len(rest))]

\* /\/\d{4}\//
HasDatePart(path) ==
  \E i \in 1..Len(path) :
    /\ i + 5 <= Len(path)
    /\ At(path, i) = "/"
    /\ \A k \in 1..4 : At(path, i + k) \in Digits
    /\ At(path, i + 5) = "/"

\* /\/(article|news|story|content|post)\//
HasKeywordPart(path) == \E w \in Keywords : includes(path, "/" \o w \o "/")

\* /[\w-]{15,}/
HasSlug(path) ==
  \E i \in 1..Len(path) :
    /\ i + SlugLength - 1 <= Len(path)
    /\ \A k \in 0..(SlugLength - 1) : At(path, i + k) \in SlugChars

pathLooksLikeArticle(path) ==
  HasDatePart(path) \/ HasKeywordPart(path) \/ HasSlug(path)

isKnownSource(domain) == \E d \in TRUSTED_NEWS_DOMAINS : endsWith(domain, d)

verifyUrlLegitimacy(url) ==
  LET parsed == ParseUrl(url)
      domain == replaceFirst(parsed.hostname, "www.")
  IN IF ~parsed.ok THEN [valid |-> FALSE, warning |-> "invalidUrl"]
     ELSE IF parsed.protocol \notin {"http:", "https:"}
     THEN [valid |-> FALSE, warning |-> "invalidUrl"]
     ELSE IF ~isKnownSource(domain) /\ ~pathLooksLikeArticle(parsed.pathname)
     THEN [valid |-> TRUE, warning |-> "unsupportedDomain"]
     ELSE [valid |-> TRUE, warning |-> "none"]

\* handleFetchFromUrl up to its await
FetchStart(s) ==
  LET verification == verifyUrlLegitimacy(s.form.newUrl)
  IN IF ~verification.valid
     THEN [s EXCEPT !.form.fetchError = verification.warning]
     ELSE [Emit(s, [op |-> "extract", id |-> s.form.newUrl])
             EXCEPT !.form.fetchError = verification.warning,
                    !.form.isFetching = TRUE]

\* handleFetchFromUrl after fetchArticleContentFromUrl returned or threw
FetchDone(s, text) ==
  IF text = ""
  THEN [s EXCEPT !.form.fetchError = "fetchError", !.form.isFetching = FALSE]
  ELSE [s EXCEPT !.form.newTitle = "h",
                 !.form.newContent = "c",
                 !.form.newSource =
                    IF @ = "" THEN replaceFirst(ParseUrl(s.form.newUrl).hostname, "www.")
                    ELSE @,
                 !.form.fetchError = "none",
                 !.form.isFetching = FALSE]

\* onChange of the url field
setNewUrl(url) ==
  /\ ~form.isFetching
  /\ Step([State EXCEPT !.form.newUrl = url, !.form.fetchError = "none"])

handleFetchFromUrl ==
  /\ ~form.isFetching
  /\ form.newUrl # ""
  /\ Step(FetchStart(State))

ExtractionResolves ==
  /\ form.isFetching
  /\ \E text \in ExtractResponses : Step(FetchDone(State, text))

ExtractionRejects ==
  /\ form.isFetching
  /\ Step(FetchDone(State, ""))

InitUrl == InitWith([runs |-> 0, edits |-> 0])

NextUrl ==
  \/ \E url \in Urls : setNewUrl(url)
  \/ handleFetchFromUrl
  \/ ExtractionResolves
  \/ ExtractionRejects

SpecUrl == InitUrl /\ [][NextUrl]_vars

----------------------------------------------------------------------------
(* Feedback, star rating and undo *)

RateRuns == 1                             \* generation runs in SpecRate
RateEdits == 2                            \* feedback, rating and undo clicks in SpecRate

Ratings == {1, 5}                         \* two of the five stars

RatedArticle(article, rating) ==
  [article EXCEPT !.currentSummary.starRating = rating]

StarRating(s, c, rating) ==
  LET s1 == [Touch(s, c) EXCEPT !.card[c].starRating = rating,
                                !.card[c].undoStack =
                                   Append(@, [feedback |-> s.card[c].feedback,
                                              starRating |-> s.card[c].starRating])]
      article == ArticleOf(s, c)
  IN IF article.currentSummary # NoEntry
     THEN handleUpdateArticle(s1, RatedArticle(article, rating))
     ELSE s1

UndoneArticle(article, previousState) ==
  [article EXCEPT !.currentSummary.feedback = previousState.feedback,
                  !.currentSummary.starRating = previousState.starRating]

UndoAction(s, c) ==
  LET undoStack == s.card[c].undoStack
      previousState == undoStack[Len(undoStack)]
      s1 == [Touch(s, c) EXCEPT !.card[c].undoStack = SubSeq(@, 1, Len(@) - 1),
                                !.card[c].feedback = previousState.feedback,
                                !.card[c].starRating = previousState.starRating]
      article == ArticleOf(s, c)
  IN IF undoStack = <<>> THEN s
     ELSE IF article.currentSummary # NoEntry
     THEN handleUpdateArticle(s1, UndoneArticle(article, previousState))
     ELSE s1

handleStarRating(c) ==
  /\ card[c].status = "ready"
  /\ edits < budget.edits
  /\ \E rating \in Ratings : Step(Edit(StarRating(State, c, rating)))

handleUndoAction(c) ==
  /\ card[c].status = "ready"
  /\ card[c].undoStack # <<>>
  /\ edits < budget.edits
  /\ Step(Edit(UndoAction(State, c)))

\* the Reset button beside the stars, shown while the undo stack is empty:
\* it clears what the card displays and does not call onUpdateArticle
ResetRating(s, c) ==
  [Touch(s, c) EXCEPT !.card[c].feedback = "none", !.card[c].starRating = 0]

resetRating(c) ==
  /\ card[c].status = "ready"
  /\ card[c].undoStack = <<>>
  /\ card[c].feedback # "none" \/ card[c].starRating # 0
  /\ Step(ResetRating(State, c))

InitRate == InitWith([runs |-> RateRuns, edits |-> RateEdits])

NextRate ==
  \/ \E c \in Cards : handleFeedback(c)
  \/ \E c \in Cards : handleStarRating(c)
  \/ \E c \in Cards : handleUndoAction(c)
  \/ \E c \in Cards : resetRating(c)
  \/ \E c \in Cards : handleRestore(c)
  \/ \E c \in Cards : togglePlayback(c)
  \/ \E c \in Cards : handleGenerate(c)
  \/ \E c \in Cards : SummarizerResolves(c)
  \/ \E c \in Cards : SynthesizerResolves(c)

SpecRate == InitRate /\ [][NextRate]_vars

----------------------------------------------------------------------------
(* Persistence: the page is loaded again *)

\* the page before its first effects ran: the initial values of useState;
\* the pending calls of the page that was closed are gone
FreshPage(s) ==
  [s EXCEPT !.articles = <<>>,
            !.savedArticles = <<>>,
            !.activeTab = "queue",
            !.activePlaybackId = "none",
            !.selectedLanguage = "English",
            !.draggedItemIndex = -1,
            !.dragOverIndex = -1,
            !.form = NewForm,
            !.engine = [id \in DOMAIN @ |-> NewEngine],
            !.runs = [id \in DOMAIN @ |-> {}]]

\* the card of id as it mounts over the lists of s
MountedCard(s, id) ==
  NewCard(IF id \in Ids(s.articles) THEN s.articles[IndexOfId(s.articles, id)]
          ELSE IF id \in Ids(s.savedArticles)
               THEN s.savedArticles[IndexOfId(s.savedArticles, id)]
               ELSE NewArticle(id),
          selectedVoice, s.selectedLanguage)

\* a variant of the mount whose load effect runs after the save effects
MountLoadingLast(s) ==
  LET s1 == [s EXCEPT !.storage = Persisted(s.articles, s.savedArticles)]
      storedQueue == s1.storage.queue
      storedLibrary == s1.storage.library
      s2 == [s1 EXCEPT !.articles = IF storedQueue # <<>>
                                     THEN parse(storedQueue[1]) ELSE @,
                       !.savedArticles = IF storedLibrary # <<>>
                                          THEN parse(storedLibrary[1]) ELSE @]
      s3 == [s2 EXCEPT !.storage = SaveEffects(s1, s2)]
  IN [s3 EXCEPT !.card = [id \in DOMAIN @ |-> MountedCard(s3, id)]]

\* the effects of the first render in their order: the load effect reads
\* the two items and queues the parsed lists, the save effects write the
\* lists of the first render, and the render with the loaded lists runs the
\* save effects again
Mount(s) ==
  LET storedQueue == s.storage.queue
      storedLibrary == s.storage.library
      s1 == [s EXCEPT !.storage = Persisted(s.articles, s.savedArticles)]
      s2 == [s1 EXCEPT !.articles = IF storedQueue # <<>>
                                     THEN parse(storedQueue[1]) ELSE @,
                       !.savedArticles = IF storedLibrary # <<>>
                                          THEN parse(storedLibrary[1]) ELSE @]
      s3 == [s2 EXCEPT !.storage = SaveEffects(s1, s2)]
  IN [s3 EXCEPT !.card = [id \in DOMAIN @ |-> MountedCard(s3, id)]]

reload == Becomes(Mount(FreshPage(Emit(State, [op |-> "reload", id |-> "none"]))))

NextStore ==
  \/ NextLists
  \/ \E c \in Shown : handleFeedback(c)
  \/ reload

SpecStore == InitLists /\ [][NextStore]_vars

----------------------------------------------------------------------------
(* startPlayback across its awaits, and the disposal of a card *)

MaxStarts == 3                            \* startPlayback calls in SpecAwait

\* how a call of startPlayback goes on: to its end, with a rejected resume or
\* decode, or with a throw when the source is created
StartOutcomes == {"ok", "reject", "throw"}

\* the sources of an engine that play
LiveSources(e) == {x \in e.sources : x.state = "playing"}

\* sourceNodeRef.current.stop(), after onended = null in the fuller variant;
\* a stopped source without handler has no event left to deliver
StopCurrent(e, detach) ==
  LET stopped == {IF x.sid = e.current
                  THEN [x EXCEPT !.state = "stopped",
                                 !.onended = IF detach THEN FALSE ELSE @]
                  ELSE x : x \in e.sources}
  IN {x \in stopped : x.state = "playing" \/ x.onended}

\* a variant of the catch branch that swallows the error
StartFailsUnreported(s, c) == Emit(s, [op |-> "startFailed", id |-> c])

\* the catch branch of startPlayback; setSummary does nothing on a card that
\* is unmounted
StartFails(s, c) ==
  LET s1 == Emit(s, [op |-> "startFailed", id |-> c])
  IN IF s.engine[c].mounted
     THEN [s1 EXCEPT !.card[c].status = "error", !.card[c].error = "playback"]
     ELSE s1

\* startPlayback from the end of its awaits on; call holds what the closure
\* of the call captured. A call that awaited decodeAudioData found no cached
\* buffer before the await and stores the decoded summary.audioBlob of its
\* closure; a call that awaited resume() looks at the cache afterwards
continueStart(s, c, call, outcome) ==
  LET m == s.engine[c].mounted
      buffer == IF call.awaiting = "decode" \/ s.card[c].audioBuffer = ""
                THEN call.audioBlob
                ELSE s.card[c].audioBuffer
      bufDuration == BufferDuration(buffer)
      safeOffset == Clamp(call.offset, bufDuration)
      s1 == [s EXCEPT !.card[c].audioBuffer = buffer,
                      !.card[c].sourceNode = IF @ = "none" THEN "none" ELSE "dead",
                      !.engine[c].sources = StopCurrent(s.engine[c], s.budget.full),
                      !.engine[c].duration = IF m THEN bufDuration ELSE @,
                      !.engine[c].currentTime = IF m THEN safeOffset ELSE @]
      sid == s.engine[c].created + 1
      source == [sid |-> sid, state |-> "playing", onended |-> TRUE,
                 onFinished |-> call.onFinished, duration |-> bufDuration,
                 buffer |-> buffer]
  IN IF outcome = "reject" THEN StartFails(s, c)
     ELSE IF s.budget.full /\ safeOffset >= bufDuration
     THEN [Emit(s1, [op |-> "finished", id |-> c])
             EXCEPT !.card[c].isPlaying = IF m THEN FALSE ELSE @,
                    !.activePlaybackId = call.onFinished]
     ELSE IF outcome = "throw" THEN StartFails(s1, c)
     ELSE handlePlaybackStarted(
            [s1 EXCEPT !.engine[c].sources = @ \cup {source},
                       !.engine[c].current = sid,
                       !.engine[c].created = sid,
                       !.engine[c].elapsed = safeOffset,
                       !.engine[c].frame = [pending |-> TRUE,
                                            isPlaying |-> call.isPlaying,
                                            duration |-> call.duration],
                       !.card[c].sourceNode = "live",
                       !.card[c].onFinished = call.onFinished,
                       !.card[c].isPlaying = IF m THEN TRUE ELSE @], c)

\* startPlayback(offset) called in render s, up to its first await: it
\* awaits resume() when the context is suspended and decodeAudioData when no
\* buffer is cached, and runs to its end otherwise
beginStart(s, c, offset, suspended, outcome) ==
  LET call == [offset |-> offset,
               isPlaying |-> s.card[c].isPlaying,
               duration |-> s.engine[c].duration,
               onFinished |-> onFinishedOf(s, c),
               audioBlob |-> s.card[c].audioBlob,
               awaiting |-> IF suspended THEN "resume" ELSE "decode"]
  IN IF s.card[c].audioBlob = "" THEN s
     ELSE IF suspended \/ s.card[c].audioBuffer = ""
     THEN [s EXCEPT !.engine[c].calls = Append(@, call)]
     ELSE continueStart(s, c, call, outcome)

\* stopPlayback on the engine with its sources
stopAwaiting(s, c) ==
  LET s1 == [s EXCEPT !.engine[c].sources =
                        {x \in @ : x.sid # s.engine[c].current},
                      !.card[c].sourceNode = IF @ = "none" THEN "none" ELSE "dead",
                      !.card[c].isPlaying = FALSE,
                      !.engine[c].frame = NoFrame]
  IN handlePlaybackStopped(s1, c)

\* a variant of the ended event whose handler does not compare the source
\* with sourceNodeRef.current
sourceEventUnguarded(s, c, x) ==
  LET m == s.engine[c].mounted
      s1 == Emit([s EXCEPT !.engine[c].sources = @ \ {x}],
                 [op |-> "ended", id |-> c, sid |-> x.sid,
                  current |-> s.engine[c].current, handler |-> x.onended])
  IN IF x.onended
     THEN [Emit(s1, [op |-> "finished", id |-> c])
             EXCEPT !.card[c].isPlaying = IF m THEN FALSE ELSE @,
                    !.card[c].sourceNode = "dead",
                    !.engine[c].currentTime = IF m THEN x.duration ELSE @,
                    !.engine[c].frame = NoFrame,
                    !.activePlaybackId = x.onFinished]
     ELSE s1

\* the ended event of source x is delivered: its onended, when still set,
\* acts if x is sourceNodeRef.current
sourceEvent(s, c, x) ==
  LET m == s.engine[c].mounted
      s1 == Emit([s EXCEPT !.engine[c].sources = @ \ {x}],
                 [op |-> "ended", id |-> c, sid |-> x.sid,
                  current |-> s.engine[c].current, handler |-> x.onended])
  IN IF x.onended /\ s.engine[c].current = x.sid
     THEN [Emit(s1, [op |-> "finished", id |-> c])
             EXCEPT !.card[c].isPlaying = IF m THEN FALSE ELSE @,
                    !.card[c].sourceNode = "dead",
                    !.engine[c].currentTime = IF m THEN x.duration ELSE @,
                    !.engine[c].frame = NoFrame,
                    !.activePlaybackId = x.onFinished]
     ELSE s1

\* the pending animation frame runs; the state setters do nothing on a card
\* that is unmounted
progressAwaiting(s, c) ==
  LET f == s.engine[c].frame
      m == s.engine[c].mounted
      end == IF s.budget.full THEN f.duration
             ELSE BufferDuration(s.card[c].audioBuffer)
  IN IF ~f.isPlaying THEN [s EXCEPT !.engine[c].frame = NoFrame]
     ELSE IF s.engine[c].elapsed >= end
     THEN [s EXCEPT !.engine[c].currentTime = IF m THEN end ELSE @,
                    !.engine[c].frame = NoFrame,
                    !.card[c].isPlaying = IF m THEN FALSE ELSE @]
     ELSE [s EXCEPT !.engine[c].currentTime =
                      IF m THEN Max(0, s.engine[c].elapsed) ELSE @]

\* removeArticle of the card shown in the queue: the list loses the article,
\* the slot is cleared if it was the article's, and the cleanup of the card
\* cancels the frame and stops the current source with onended = null; the
\* calls of startPlayback that await are not told
dispose(s, c) ==
  LET Other(a) == a.id # c
  IN [Emit(s, [op |-> "remove", id |-> c])
        EXCEPT !.articles = SeqFilter(@, Other),
               !.activePlaybackId = IF @ = c THEN "none" ELSE @,
               !.engine[c].mounted = FALSE,
               !.engine[c].frame = NoFrame,
               !.engine[c].sources = {x \in @ : x.sid # s.engine[c].current},
               !.card[c].sourceNode = IF @ = "none" THEN "none" ELSE "dead",
               !.card[c].isPlaying = FALSE]

\* the isActivePlayback effect of the mounted cards ids, stop branch
RECURSIVE StopInactiveAwaiting(_, _, _)
StopInactiveAwaiting(p, s, ids) ==
  IF ids = {} THEN s
  ELSE LET c == CHOOSE x \in ids : TRUE
           s1 == IF /\ s.engine[c].mounted
                    /\ s.activePlaybackId # c
                    /\ s.card[c].isPlaying
                    /\ \/ ActiveDepsChanged(p, s, c)
                       \/ s.budget.full /\ TimeChanged(p, s, c)
                 THEN stopAwaiting(s, c) ELSE s
       IN StopInactiveAwaiting(p, s1, ids \ {c})

\* the effects after a handler took p to q
EffectsAwaiting(p, q) ==
  LET q1 == StopInactiveAwaiting(p, SyncIdle(p, q), DOMAIN q.card)
      starters == {c \in DOMAIN q.card :
                     /\ q1.engine[c].mounted
                     /\ q1.activePlaybackId = c
                     /\ ~q1.card[c].isPlaying
                     /\ q1.card[c].status = "ready"
                     /\ q1.engine[c].created + Len(q1.engine[c].calls) < MaxStarts
                     /\ \/ ActiveDepsChanged(p, q1, c)
                        \/ q1.budget.full /\ TimeChanged(p, q1, c)}
  IN IF starters = {} THEN {q1}
     ELSE LET c == CHOOSE x \in starters : TRUE
          IN {beginStart(q1, c, ResumeTime(q1, c), suspended, outcome) :
                suspended \in BOOLEAN, outcome \in StartOutcomes}

StepAwaiting(q) == \E t \in EffectsAwaiting(State, q) : Becomes(t)

CanStart(c) == engine[c].created + Len(engine[c].calls) < MaxStarts

togglePlaybackAwaiting(c) ==
  /\ engine[c].mounted
  /\ card[c].status = "ready"
  /\ IF card[c].isPlaying
     THEN StepAwaiting(stopAwaiting(State, c))
     ELSE /\ CanStart(c)
          /\ \E suspended \in BOOLEAN, outcome \in StartOutcomes :
               StepAwaiting(beginStart(State, c, ResumeTime(State, c),
                                       suspended, outcome))

\* the skip buttons of the fuller variant
handleSkipAwaiting(c, seconds) ==
  LET nextTime == Clamp(engine[c].currentTime + seconds, engine[c].duration)
      s1 == [State EXCEPT !.engine[c].currentTime = nextTime]
  IN /\ budget.full
     /\ engine[c].mounted
     /\ card[c].status = "ready"
     /\ IF card[c].isPlaying
        THEN /\ CanStart(c)
             /\ \E suspended \in BOOLEAN, outcome \in StartOutcomes :
                  StepAwaiting(beginStart(s1, c, nextTime, suspended, outcome))
        ELSE StepAwaiting(s1)

\* a pending call of startPlayback goes on after its await
startContinues(c) ==
  \E i \in 1..Len(engine[c].calls), outcome \in StartOutcomes :
    LET call == engine[c].calls[i]
        rest == [j \in 1..(Len(engine[c].calls) - 1) |->
                   engine[c].calls[IF j < i THEN j ELSE j + 1]]
    IN StepAwaiting(continueStart([State EXCEPT !.engine[c].calls = rest],
                                  c, call, outcome))

\* a source that plays reaches its end, or the event of a stopped source
\* arrives
sourceEnded(c) ==
  \E x \in engine[c].sources : StepAwaiting(sourceEvent(State, c, x))

updateProgressAwaiting(c) ==
  /\ engine[c].frame.pending
  /\ StepAwaiting(progressAwaiting(State, c))

removeArticleAwaiting(c) ==
  /\ engine[c].mounted
  /\ activeTab = "queue"
  /\ StepAwaiting(dispose(State, c))

InitAwait ==
  /\ budget \in {[runs |-> 0, edits |-> 0, full |-> b] : b \in BOOLEAN}
  /\ articles \in EngineQueues
  /\ savedArticles = <<>>
  /\ activeTab = "queue"
  /\ draggedItemIndex = -1
  /\ dragOverIndex = -1
  /\ activePlaybackId = "none"
  /\ selectedLanguage = "English"
  /\ card = [id \in ArticleIds |->
               NewCard(articles[IndexOfId(articles, id)], selectedVoice, "English")]
  /\ engine = [id \in ArticleIds |-> NewEngine]
  /\ runs = [id \in ArticleIds |-> {}]
  /\ nextId = 1
  /\ edits = 0
  /\ form = NewForm
  /\ storage = Persisted(articles, savedArticles)
  /\ ev = <<>>

NextAwait ==
  \/ \E c \in Cards : togglePlaybackAwaiting(c)
  \/ \E c \in Cards, seconds \in {-SkipSeconds, SkipSeconds} : handleSkipAwaiting(c, seconds)
  \/ \E c \in Cards : startContinues(c)
  \/ \E c \in Cards : sourceEnded(c)
  \/ \E c \in Cards : updateProgressAwaiting(c)
  \/ \E c \in Cards : removeArticleAwaiting(c)

SpecAwait == InitAwait /\ [][NextAwait]_vars

----------------------------------------------------------------------------
(* The library: save for later *)

SaveEdits == 3                            \* save clicks in SpecSave

\* an article typed into the form without a url: url is undefined
ManualArticle(id) == [NewArticle(id) EXCEPT !.url = "none"]

\* a stored queue with two articles added by hand, one imported from a url
\* and one more imported from the same url
SaveQueue ==
  <<ManualArticle("a1"), ManualArticle("a2"), StoredArticle("a3"),
    [NewArticle("a4") EXCEPT !.url = "a3"]>>

InitSave ==
  /\ budget = [runs |-> 0, edits |-> SaveEdits]
  /\ articles = SaveQueue
  /\ savedArticles = <<>>
  /\ activeTab = "queue"
  /\ draggedItemIndex = -1
  /\ dragOverIndex = -1
  /\ activePlaybackId = "none"
  /\ selectedLanguage = "English"
  /\ card = [id \in Ids(SaveQueue) |->
               NewCard(SaveQueue[IndexOfId(SaveQueue, id)], selectedVoice, "English")]
  /\ engine = [id \in Ids(SaveQueue) |-> NewEngine]
  /\ runs = [id \in Ids(SaveQueue) |-> {}]
  /\ nextId = 1
  /\ edits = 0
  /\ form = NewForm
  /\ storage = Persisted(articles, savedArticles)
  /\ ev = <<>>

NextSave ==
  \/ \E c \in Shown : toggleSaveForLater(c)
  \/ \E c \in Shown : onRemove(c)
  \/ \E tab \in {"queue", "library"} : setActiveTab(tab)

SpecSave == InitSave /\ [][NextSave]_vars

----------------------------------------------------------------------------
(* A change of the audio payload while startPlayback awaits *)

\* handleRestore on the engine with its sources: stopPlayback drops the
\* current source
RestoreAwaiting(s, c, entry) ==
  LET s1 == Restore(s, c, entry)
  IN IF s.card[c].isPlaying
     THEN [s1 EXCEPT !.engine[c].sources =
                       {x \in @ : x.sid # s.engine[c].current}]
     ELSE s1

handleRestoreAwaiting(c) ==
  /\ engine[c].mounted
  /\ \E entry \in Range(ArticleOf(State, c).summaryHistory) :
       StepAwaiting(RestoreAwaiting(State, c, entry))

\* the stored queue holds an article whose current audio lasts twice as long
\* as that of its older version
InitSwap ==
  /\ InitAwait
  /\ articles = <<LongArticle("a1"), NewArticle("a2")>>

NextSwap ==
  \/ \E c \in Cards : togglePlaybackAwaiting(c)
  \/ \E c \in Cards : startContinues(c)
  \/ \E c \in Cards : sourceEnded(c)
  \/ \E c \in Cards : updateProgressAwaiting(c)
  \/ \E c \in Cards : handleRestoreAwaiting(c)

SpecSwap == InitSwap /\ [][NextSwap]_vars

----------------------------------------------------------------------------
(* The external calls settle *)

LiveRuns == 2                             \* generation runs in SpecLive

LiveUrls == {"https://bbc.com/news/world-12345", "not a url"}

InitLive == InitWith([runs |-> LiveRuns, edits |-> 0])

NextLive ==
  \/ \E c \in Shown : handleGenerate(c)
  \/ \E c \in ArticleIds : SummarizerResolves(c)
  \/ \E c \in ArticleIds : SummarizerRejects(c)
  \/ \E c \in ArticleIds : SynthesizerResolves(c)
  \/ \E c \in ArticleIds : SynthesizerRejects(c)
  \/ \E c \in Shown : onRemove(c)
  \/ \E url \in LiveUrls : setNewUrl(url)
  \/ handleFetchFromUrl
  \/ ExtractionResolves
  \/ ExtractionRejects

\* every call of the summarizer, of the synthesizer and of the extraction
\* that is awaited is eventually resolved or rejected
CallsSettle ==
  /\ \A c \in ArticleIds : WF_vars(SummarizerResolves(c) \/ SummarizerRejects(c))
  /\ \A c \in ArticleIds : WF_vars(SynthesizerResolves(c) \/ SynthesizerRejects(c))
  /\ WF_vars(ExtractionResolves \/ ExtractionRejects)

SpecLive == InitLive /\ [][NextLive]_vars /\ CallsSettle

----------------------------------------------------------------------------
(* The add-article form *)

AddEdits == 1                             \* save clicks in SpecAdd

FreshIds == {"a9"}                        \* results of Math.random()
Typed == {"", " ", "t"}                   \* what the user types in a field

\* String.prototype.trim on the typed texts
trim(text) == IF text = " " THEN "" ELSE text

setNewTitle(text) ==
  /\ form.newTitle # text
  /\ Step([State EXCEPT !.form.newTitle = text])

setNewContent(text) ==
  /\ form.newContent # text
  /\ Step([State EXCEPT !.form.newContent = text])

\* addArticle: the new article is put first in the queue, the form is
\* emptied and the queue is shown; the cards that were shown and are not in
\* the queue are unmounted (their cleanup stops the source without a
\* report), the cards of the queue are mounted
AddArticle(s, id) ==
  LET article == [id |-> id, content |-> s.form.newContent,
                  url |-> IF s.form.newUrl = "" THEN "none" ELSE s.form.newUrl,
                  currentSummary |-> NoEntry, summaryHistory |-> <<>>]
      old == currentList(s)
      new == <<article>> \o s.articles
      Mounted(c) == NewCard(new[IndexOfId(new, c)], selectedVoice, s.selectedLanguage)
      Unmounted(c) == NewCard(old[IndexOfId(old, c)], selectedVoice, s.selectedLanguage)
  IN [Emit(s, [op |-> "add", id |-> id])
        EXCEPT !.articles = new,
               !.activeTab = "queue",
               !.form = [@ EXCEPT !.newTitle = "", !.newContent = "",
                                  !.newSource = "", !.newUrl = ""],
               !.card = [c \in DOMAIN s.card |->
                           IF c \in Ids(old) \cap Ids(new) THEN s.card[c]
                           ELSE IF c \in Ids(new) THEN Mounted(c)
                           ELSE IF c \in Ids(old) THEN Unmounted(c)
                           ELSE s.card[c]],
               !.engine = [c \in DOMAIN s.engine |->
                             IF c \in Ids(old) \cap Ids(new) THEN s.engine[c]
                             ELSE NewEngine],
               !.runs = [c \in DOMAIN s.runs |->
                           IF c \in Ids(old) \cap Ids(new) THEN s.runs[c]
                           ELSE {[r EXCEPT !.mounted = FALSE] : r \in s.runs[c]}]]

\* the ids are random: the new one is taken to differ from those in use
addArticle ==
  /\ trim(form.newTitle) # ""
  /\ trim(form.newContent) # ""
  /\ \E id \in FreshIds \ (Ids(articles) \cup Ids(savedArticles)) :
       Step(AddArticle(State, id))

AddQueue == <<StoredArticle("a1"), StoredArticle("a3")>>

InitAdd ==
  /\ budget = [runs |-> 0, edits |-> AddEdits]
  /\ articles = AddQueue
  /\ savedArticles = <<>>
  /\ activeTab = "queue"
  /\ draggedItemIndex = -1
  /\ dragOverIndex = -1
  /\ activePlaybackId = "none"
  /\ selectedLanguage = "English"
  /\ card = [id \in Ids(AddQueue) \cup FreshIds |->
               IF id \in FreshIds
               THEN NewCard(NewArticle(id), selectedVoice, "English")
               ELSE NewCard(AddQueue[IndexOfId(AddQueue, id)], selectedVoice, "English")]
  /\ engine = [id \in Ids(AddQueue) \cup FreshIds |-> NewEngine]
  /\ runs = [id \in Ids(AddQueue) \cup FreshIds |-> {}]
  /\ nextId = 1
  /\ edits = 0
  /\ form = NewForm
  /\ storage = Persisted(articles, savedArticles)
  /\ ev = <<>>

NextAdd ==
  \/ \E c \in Shown : togglePlayback(c)
  \/ \E c \in Shown : SourceEnded(c)
  \/ \E c \in Shown : toggleSaveForLater(c)
  \/ \E c \in Shown : onRemove(c)
  \/ \E tab \in {"queue", "library"} : setActiveTab(tab)
  \/ \E text \in Typed : setNewTitle(text)
  \/ \E text \in Typed : setNewContent(text)
  \/ addArticle

SpecAdd == InitAdd /\ [][NextAdd]_vars

----------------------------------------------------------------------------
(* Properties *)

Art(c) == articles[IndexOfId(articles, c)]

HasRun(rs, rid) == \E r \in rs : r.rid = rid

RunOf(rs, rid) == CHOOSE r \in rs : r.rid = rid

Ops(e) == {e[i].op : i \in 1..Len(e)}

\* the operations of the events of card c
OpsOf(e, c) == {e[i].op : i \in {j \in 1..Len(e) : e[j].id = c}}

EvOf(e, op) == {e[i] : i \in {j \in 1..Len(e) : e[j].op = op}}

\* the run r of card c is the only event on its card since an idle card's
\* generate button started it
CleanFromIdle(r) == r.clean /\ r.from = "idle"

\* C1, at the trigger: generate on an idle card shows summarizing and calls
\* the summarizer with the article body and the card's selected language
C1_Trigger(c) ==
  \A r \in runs'[c] :
    (~HasRun(runs[c], r.rid) /\ card[c].status = "idle") =>
      /\ card'[c].status = "summarizing"
      /\ r.localLanguage = card[c].localLanguage
      /\ r.localVoice = card[c].localVoice
      /\ r.localPitch = card[c].localPitch
      /\ EvOf(ev', "summarize") =
           {[op |-> "summarize", id |-> c, content |-> Art(c).content,
             language |-> card[c].localLanguage]}
      /\ "synthesize" \notin Ops(ev')

\* C1, while the run is pending and nothing else happened on its card
C1_Pending(c, r) ==
  /\ card[c].status = r.stage
  /\ card[c].localLanguage = r.localLanguage
  /\ card[c].localVoice = r.localVoice
  /\ card[c].localPitch = r.localPitch

\* C1, one step of a run that nothing else has touched
C1_Step(c, r) ==
  \/ /\ r \in runs'[c]                              \* nothing on this card
     /\ card'[c].status = card[c].status
  \/ /\ HasRun(runs'[c], r.rid)                      \* another event on the card
     /\ ~RunOf(runs'[c], r.rid).clean
  \/ /\ ~HasRun(runs'[c], r.rid)                     \* a call failed
     /\ Ops(ev') \cap {"summarizeRejected", "speechRejected"} # {}
        \/ [op |-> "speechResponse", id |-> c, data |-> ""] \in EvOf(ev', "speechResponse")
  \/ /\ r.stage = "summarizing"                      \* the summarizer returned
     /\ HasRun(runs'[c], r.rid)
     /\ LET r2 == RunOf(runs'[c], r.rid)
        IN /\ r2 = [r EXCEPT !.stage = "generating-audio",
                             !.summaryText = r2.summaryText]
           /\ \E e \in EvOf(ev', "summaryResponse") :
                 r2.summaryText = getSummarizedText(e.text)
           /\ card'[c].status = "generating-audio"
           /\ EvOf(ev', "synthesize") =
                {[op |-> "synthesize", id |-> c, text |-> r2.summaryText,
                  voice |-> r.localVoice, pitch |-> r.localPitch]}
  \/ /\ r.stage = "generating-audio"                 \* the synthesizer returned
     /\ ~HasRun(runs'[c], r.rid)
     /\ card'[c].status = "ready"
     /\ LET e == Art(c)'.currentSummary
        IN /\ e.summaryText = r.summaryText
           /\ e.language = r.localLanguage
           /\ e.voice = r.localVoice
           /\ e.pitch = r.localPitch
           /\ \E x \in EvOf(ev', "speechResponse") : e.audioBlob = x.data

\* C1: a generation triggered on an idle article, with both calls succeeding
\* and no other action on its card, visits summarizing, generating-audio and
\* ready in that order; the synthesizer is called only when the summarizer
\* has returned, with its text; the committed current entry carries that
\* text and the language, voice and pitch selected at the trigger.
C1_CleanRun ==
  [][\A c \in ArticleIds :
       /\ C1_Trigger(c)
       /\ \A r \in runs[c] : CleanFromIdle(r) => C1_Pending(c, r) /\ C1_Step(c, r)
       /\ "synthesize" \in Ops(ev') => "summaryResponse" \in Ops(ev')]_vars

\* a run from an idle card, with a voice other than the header's, committed
C1_Witness ==
  \E c \in ArticleIds :
    /\ [op |-> "generated", id |-> c, clean |-> TRUE] \in EvOf(ev, "generated")
    /\ card[c].status = "ready"
    /\ Art(c).currentSummary.voice # selectedVoice

----------------------------------------------------------------------------
(* C2 *)

\* a call of a run of card c at the given stage settled in this step
Settled(c, stage) ==
  \E r \in runs[c] :
    /\ r.stage = stage
    /\ \/ ~HasRun(runs'[c], r.rid)
       \/ RunOf(runs'[c], r.rid).stage # stage
    /\ Ops(ev') \cap {"summaryResponse", "summarizeRejected",
                      "speechResponse", "speechRejected"} # {}

InFlight == {"summarizing", "generating-audio"}

\* C2: while a run is in flight the status leaves summarizing or
\* generating-audio only by that stage's call settling (to generating-audio,
\* ready or error); a ready status never moves to summarizing,
\* generating-audio or an error tagged summarization or audio (generation
\* cannot be triggered on a ready card, so no step from ready is a new run).
C2_StatusOwnedByRun ==
  [][\A c \in ArticleIds :
       /\ (card[c].status \in InFlight /\ card'[c].status # card[c].status) =>
            /\ Settled(c, card[c].status)
            /\ card'[c].status \in {"generating-audio", "ready", "error"}
       /\ card[c].status = "ready" =>
            /\ card'[c].status \notin InFlight
            /\ ~(card'[c].status = "error"
                 /\ card'[c].error \in {"summarization", "audio"})]_vars

----------------------------------------------------------------------------
(* C3 *)

Rejected(e, c) ==
  \/ [op |-> "speechRejected", id |-> c] \in EvOf(e, "speechRejected")
  \/ [op |-> "speechResponse", id |-> c, data |-> ""] \in EvOf(e, "speechResponse")

C3_Tagged ==
  \A c \in ArticleIds : card[c].status = "error" => card[c].error \in ErrorTags

C3_Step(c) ==
  /\ [op |-> "summarizeRejected", id |-> c] \in EvOf(ev', "summarizeRejected") =>
       /\ card'[c].status = "error"
       /\ card'[c].error = "summarization"
       /\ "synthesize" \notin Ops(ev')
       /\ \E r \in runs[c] : r.stage = "summarizing" /\ ~HasRun(runs'[c], r.rid)
  /\ Rejected(ev', c) =>
       /\ card'[c].status = "error"
       /\ card'[c].error = "audio"

\* C3: a rejected summarizer call sets error / summarization and its run
\* ends without a synthesizer call; a rejected synthesizer call, or a
\* response without audio data, sets error / audio; an error status always
\* carries one of the tags summarization, audio, playback.
C3_ErrorTags ==
  /\ []C3_Tagged
  /\ [][\A c \in ArticleIds : C3_Step(c)]_vars

\* the synthesizer answered without audio data and the card shows error / audio
C3_Witness ==
  \E c \in ArticleIds :
    /\ [op |-> "speechResponse", id |-> c, data |-> ""] \in EvOf(ev, "speechResponse")
    /\ card[c].status = "error"
    /\ card[c].error = "audio"

----------------------------------------------------------------------------
(* C4 *)

\* a step of the pipeline of card c that is not a commit
NoCommitStep(e, c) ==
  /\ "generated" \notin OpsOf(e, c)
  /\ OpsOf(e, c) \cap {"summarize", "synthesize", "summarizeRejected",
                       "speechRejected", "speechResponse"} # {}

Failed(e, c) ==
  \/ [op |-> "summarizeRejected", id |-> c] \in EvOf(e, "summarizeRejected")
  \/ Rejected(e, c)

SameSummaries(a, b) ==
  /\ a.currentSummary = b.currentSummary
  /\ a.summaryHistory = b.summaryHistory

\* C4: no step of a run other than its commit calls the update operation or
\* changes the queue or the library; when a run that was alone on its card
\* fails, the article's current summary and history, in the queue and in
\* the library, are those of the article the run was triggered on.
C4_FailedRunKeepsArticle ==
  [][\A c \in ArticleIds :
       /\ NoCommitStep(ev', c) =>
            /\ "update" \notin Ops(ev')
            /\ articles' = articles
            /\ savedArticles' = savedArticles
       /\ Failed(ev', c) =>
            \A r \in runs[c] :
              (r.clean /\ ~HasRun(runs'[c], r.rid)) =>
                /\ SameSummaries(Art(c)', r.article)
                /\ \A i \in 1..Len(savedArticles') :
                     savedArticles'[i].id = c =>
                       SameSummaries(savedArticles'[i], r.article)]_vars

\* a synthesizer call was rejected while the article is in the library
C4_Witness ==
  \E c \in ArticleIds :
    /\ [op |-> "speechRejected", id |-> c] \in EvOf(ev, "speechRejected")
    /\ card[c].status = "error"
    /\ \E i \in 1..Len(savedArticles) : savedArticles[i].id = c
    /\ Art(c).currentSummary = StoredCurrent

----------------------------------------------------------------------------
(* C5 *)

\* C5: the retry action on a card in error / audio calls the synthesizer
\* with the summary text the card already holds and does not call the
\* summarizer.
C5_RetryAudioOnlySynthesizes ==
  [][\A c \in Cards :
       (card[c].status = "error" /\ card[c].error = "audio" /\ Retry(c)) =>
         /\ "summarize" \notin OpsOf(ev', c)
         /\ \E e \in EvOf(ev', "synthesize") :
              e.id = c /\ e.text = card[c].summaryText]_vars

----------------------------------------------------------------------------
(* C6 *)

Committed(e, c) == "generated" \in OpsOf(e, c)

PreviousEntries(article) ==
  IF article.currentSummary # NoEntry
  THEN <<article.currentSummary>> \o article.summaryHistory
  ELSE article.summaryHistory

\* C6: the commit of a run calls the update operation exactly once, with an
\* article whose current summary is the new entry and whose history is the
\* current summary the article had before the commit (if any) followed by
\* the history it had before the commit; the queue and the library hold that
\* article after the step.
C6_AtomicCommit ==
  [][\A c \in ArticleIds :
       Committed(ev', c) =>
         /\ Len(SeqFilter(ev', LAMBDA e : e.op = "update" /\ e.id = c)) = 1
         /\ \A u \in EvOf(ev', "update") :
              /\ u.article.currentSummary \notin
                   {Art(c).currentSummary} \cup Range(Art(c).summaryHistory)
              /\ u.article.summaryHistory = PreviousEntries(Art(c))
              /\ Art(c)' = u.article
              /\ \A i \in 1..Len(savedArticles') :
                   savedArticles'[i].id = c => savedArticles'[i] = u.article]_vars

----------------------------------------------------------------------------
(* C7 *)

\* the runs of card c that ended in this step
EndedRuns(c) == {r \in runs[c] : ~HasRun(runs'[c], r.rid)}

\* C7: a commit leaves the history at most one entry longer than it was
\* immediately before the commit, and the current summary is the entry of
\* the run that committed.
C7_CommitGrowsHistoryByOne ==
  [][\A c \in ArticleIds :
       Committed(ev', c) =>
         /\ Len(Art(c)'.summaryHistory) <= Len(Art(c).summaryHistory) + 1
         /\ \E r \in EndedRuns(c) : Art(c)'.currentSummary.id = r.rid]_vars

----------------------------------------------------------------------------
(* C8 *)

Entries(article) ==
  ({article.currentSummary} \ {NoEntry}) \cup Range(article.summaryHistory)

C8_Restored(c, entry) ==
  LET before == Art(c)
      after == Art(c)'
  IN /\ after.currentSummary = entry
     /\ entry \notin Range(after.summaryHistory)
     /\ before.currentSummary # NoEntry =>
          /\ Len(after.summaryHistory) = Len(before.summaryHistory)
          /\ Head(after.summaryHistory) = before.currentSummary
          /\ Tail(after.summaryHistory) =
               SeqFilter(before.summaryHistory, LAMBDA e : e # entry)
     /\ Range(before.summaryHistory) \ {entry} \subseteq Range(after.summaryHistory)
     /\ Entries(after) = Entries(before)
     /\ \A i \in 1..Len(articles) : articles[i].id # c => articles'[i] = articles[i]

\* C8: restoring entry e of the history makes e the current summary, takes
\* e out of the history and puts the previous current summary (if any) at
\* the front of the history; every other entry stays, in its order, and the
\* set of entries (current and history) is the same.
C8_RestoreKeepsEntries ==
  [][\A c \in Cards :
       \A entry \in Range(Art(c).summaryHistory) :
         Step(Restore(State, c, entry)) => C8_Restored(c, entry)]_vars

\* the older stored entry was restored from a history of two entries, the
\* other being a committed one
C8_Witness ==
  \E c \in Cards :
    /\ Art(c).currentSummary = StoredOld
    /\ Len(Art(c).summaryHistory) = 2
    /\ StoredCurrent \in Range(Art(c).summaryHistory)
    /\ "update" \in OpsOf(ev, c)
    /\ "generated" \notin OpsOf(ev, c)

----------------------------------------------------------------------------
(* C9 *)

\* C9: at most one generation run is in flight for an article at any time,
\* whatever the user did while a run was pending.
C9_OneRunPerArticle ==
  \A c \in ArticleIds : Cardinality(runs[c]) <= 1

----------------------------------------------------------------------------
(* C10 *)

\* C10: a card whose source is playing, or whose engine has just reported
\* started, has status ready.
C10_PlaysOnlyWhenReady ==
  \A c \in ArticleIds :
    (card[c].sourceNode = "live" \/ "started" \in OpsOf(ev, c)) =>
      card[c].status = "ready"

----------------------------------------------------------------------------
(* C11 *)

Reports == {"started", "stopped", "finished"}

\* the cards whose engine has a source playing
Live == {c \in DOMAIN card : card[c].sourceNode = "live"}

\* the articles with a started still unanswered after the first k reports
\* of e, when those of open were unanswered before
RECURSIVE OpenAfter(_, _, _)
OpenAfter(open, e, k) ==
  IF k = 0 THEN open
  ELSE LET o == OpenAfter(open, e, k - 1)
       IN IF e[k].op = "started" THEN o \cup {e[k].id}
          ELSE IF e[k].op \in {"stopped", "finished"} THEN o \ {e[k].id}
          ELSE o

C11_Settled ==
  /\ Cardinality(Live) <= 1
  /\ \A c \in Live : activePlaybackId = c /\ card[c].isPlaying
  /\ \A c \in DOMAIN card : card[c].isPlaying => c \in Live

----------------------------------------------------------------------------
(* C12 *)

\* the engines other than x playing when the k-th report of e arrives
PlayingAt(e, k, x) ==
  {y \in DOMAIN card \ {x} :
     /\ card[y].isPlaying
     /\ \A j \in 1..(k - 1) : ~(e[j].id = y /\ e[j].op \in {"stopped", "finished"})}

----------------------------------------------------------------------------
(* C13 *)

\* the slot the coordinator holds when the k-th event of e arrives
ObservedSlot(e, k) ==
  LET prior == {j \in 1..(k - 1) : e[j].op \in {"started", "tab"}}
  IN IF prior = {} THEN activePlaybackId
     ELSE LET j == CHOOSE i \in prior : \A h \in prior : h <= i
          IN IF e[j].op = "started" THEN e[j].id ELSE "none"

\* C13: a stopped report of article X is handled with the slot as it is at
\* that moment; the slot becomes none if it was X and is left as it was
\* otherwise.
C13_StoppedClearsOwnSlot ==
  [][\A k \in 1..Len(ev') :
       ev'[k].op = "stopped" =>
         /\ ev'[k].active = ObservedSlot(ev', k)
         /\ \A j \in (k + 1)..Len(ev') : ev'[j].op \notin Reports
         /\ activePlaybackId' =
              IF ev'[k].active = ev'[k].id THEN "none" ELSE ev'[k].active]_vars

\* the active article was paused and the slot is free
C13_Witness ==
  \E x \in DOMAIN card :
    /\ ev = <<[op |-> "stopped", id |-> x, active |-> x]>>
    /\ activePlaybackId = "none"
    /\ card[x].status = "ready"

----------------------------------------------------------------------------
(* C14 *)

\* the article after x in list if it has audio on its current summary
NextWithAudio(list, x) ==
  LET i == IndexOfId(list, x)
  IN IF i # 0 /\ i < Len(list) /\ list[i + 1].currentSummary.audioBlob # ""
     THEN list[i + 1].id
     ELSE "none"

\* C14: when X reports finished in the queue view, the slot becomes the id
\* of the article after X in the queue as it is at that moment, if that
\* article has audio on its current summary, and none otherwise.
C14_AdvanceByQueueAtFinish ==
  [][\A x \in DOMAIN card :
       (activeTab = "queue" /\ "finished" \in OpsOf(ev', x)) =>
         activePlaybackId' = NextWithAudio(articles, x)]_vars

----------------------------------------------------------------------------
(* C15 *)

----------------------------------------------------------------------------
(* C16 *)

IdsOf(list) == [k \in 1..Len(list) |-> list[k].id]

Without(list, x) == SeqFilter(list, LAMBDA a : a # x)

\* C16: dropping the article dragged from index i onto index j # i gives
\* the queue with that article at index j and the other articles in the
\* order they had; the queue has the same articles as before.
C16_DropMoves ==
  [][\A j \in 0..(Len(articles) - 1) :
       (draggedItemIndex \notin {-1, j} /\ onDrop(j)) =>
         LET x == articles[draggedItemIndex + 1]
         IN /\ Len(articles') = Len(articles)
            /\ articles'[j + 1] = x
            /\ Without(articles', x) = Without(articles, x)
            /\ Range(articles') = Range(articles)]_vars

\* index 0 of the stored queue was dropped on index 2
C16_Witness ==
  /\ ev = <<[op |-> "drop", id |-> "a1", from |-> 0, to |-> 2]>>
  /\ IdsOf(articles) = <<"a2", "a3", "a1", "a4">>

----------------------------------------------------------------------------
(* C17 *)

DragAction ==
  \/ \E index \in 0..(Len(articles) - 1) :
       onDragStart(index) \/ onDragOver(index) \/ onDrop(index)
  \/ onDragEnd

\* C17: a drop on the dragged index, or with no drag in progress, leaves
\* the queue as it is; no drag start, drag over, drop or drag end changes
\* the playback slot, the library, the articles' content or a card.
C17_DragFrame ==
  [][/\ \A j \in 0..(Len(articles) - 1) :
          (draggedItemIndex \in {-1, j} /\ onDrop(j)) => articles' = articles
     /\ DragAction =>
          /\ activePlaybackId' = activePlaybackId
          /\ savedArticles' = savedArticles
          /\ Range(articles') = Range(articles)
          /\ card' = card
          /\ "started" \notin Ops(ev') /\ "stopped" \notin Ops(ev')]_vars

\* the queue was reordered while an article of the library was playing
C17_Witness ==
  /\ "drop" \in Ops(ev)
  /\ activePlaybackId \in Ids(savedArticles)
  /\ card[activePlaybackId].isPlaying
  /\ IdsOf(articles) # IdsOf(DragQueue)

\* the number of events op of card c in the events e
CountOf(e, c, op) == Cardinality({i \in 1..Len(e) : e[i].id = c /\ e[i].op = op})

StartFailed(c) == card'[c].status = "error" /\ card'[c].error = "playback"

\* what a start(offset) of card c that did not fail leaves behind
StartOutcome(c, offset) ==
  LET bufDuration == BufferDuration(BufferOf(State, c))
      safeOffset == Max(0, Min(bufDuration, offset))
  IN /\ engine'[c].currentTime = safeOffset
     /\ IF safeOffset = bufDuration
        THEN /\ CountOf(ev', c, "finished") = 1
             /\ CountOf(ev', c, "started") = 0
             /\ ~card'[c].isPlaying
             /\ card'[c].sourceNode # "live"
        ELSE /\ CountOf(ev', c, "started") = 1
             /\ CountOf(ev', c, "finished") = 0
             /\ card'[c].isPlaying
             /\ card'[c].sourceNode = "live"
             /\ engine'[c].elapsed = safeOffset

Offsets == (0 - SkipSeconds)..(MaxElapsed + SkipSeconds)

Durations == 0..MaxElapsed

C20_StopKeepsTime ==
  [][\A c \in Cards :
       /\ togglePlaybackTimed(c) /\ card[c].isPlaying =>
            /\ ~card'[c].isPlaying
            /\ ~engine'[c].frame.pending
            /\ card'[c].sourceNode # "live"
            /\ CountOf(ev', c, "stopped") = 1
            /\ CountOf(ev', c, "finished") = 0
            /\ engine'[c].currentTime = engine[c].currentTime
       /\ CountOf(ev', c, "finished") > 0 =>
            card[c].sourceNode = "live" \/ card[c].status = "error"
       /\ togglePlaybackTimed(c) /\ ~card[c].isPlaying =>
            \/ StartFailed(c)
            \/ /\ card'[c].isPlaying
               /\ engine'[c].elapsed =
                    (IF engine[c].currentTime >= engine[c].duration
                     THEN 0 ELSE engine[c].currentTime)]_vars

\* stopped at 15 s of the 20 s buffer after the source had played to its end
C20_Witness ==
  /\ card["a1"].audioBuffer = "pcm20"
  /\ CountOf(ev, "a1", "stopped") = 1
  /\ ~card["a1"].isPlaying
  /\ card["a1"].sourceNode = "dead"
  /\ ~engine["a1"].frame.pending
  /\ engine["a1"].currentTime = SkipSeconds
  /\ engine["a1"].elapsed = BufferDuration("pcm20")

----------------------------------------------------------------------------
(* C22 *)

\* new is old with every article of a's id replaced by a, and nothing else
Replaced(old, new, a) ==
  /\ Len(new) = Len(old)
  /\ \A i \in 1..Len(old) : new[i] = IF old[i].id = a.id THEN a ELSE old[i]

SameInBoth ==
  \A i \in 1..Len(articles), j \in 1..Len(savedArticles) :
    articles[i].id = savedArticles[j].id =>
      /\ articles[i].currentSummary = savedArticles[j].currentSummary
      /\ articles[i].summaryHistory = savedArticles[j].summaryHistory

\* C22: an update with article value a replaces every article of a's id in
\* the queue and in the library by a, leaves the other articles and the order
\* of both lists as they are and adds no article; an article in both lists
\* has the same current summary and history in both.
C22_UpdateFansOut ==
  /\ []SameInBoth
  /\ [][\A i \in 1..Len(ev') :
          ev'[i].op = "update" =>
            /\ Replaced(articles, articles', ev'[i].article)
            /\ Replaced(savedArticles, savedArticles', ev'[i].article)]_vars

\* a generation committed for an article that is in the queue and the library
C22_Witness ==
  \E i \in 1..Len(ev) :
    /\ ev[i].op = "update"
    /\ ev[i].id \in Ids(articles) \cap Ids(savedArticles)
    /\ ev[i].article.currentSummary.id = 1

\* a generation committed after its article was removed from both lists
C22_AfterRemoval ==
  \E i \in 1..Len(ev) :
    /\ ev[i].op = "update"
    /\ ev[i].id \notin Ids(articles) \cup Ids(savedArticles)

----------------------------------------------------------------------------
(* C23 *)

\* C23: the reset of a card in error sets its status to idle and changes
\* nothing else: no call is issued and no event reported, the lists and the
\* slot stay as they are, and so do the card's voice, language, pitch and
\* playback state.
C23_ResetFrame ==
  [][\A c \in Cards :
       Reset(c) =>
         /\ card' = [card EXCEPT ![c].status = "idle"]
         /\ engine' = engine
         /\ ev' = <<>>
         /\ articles' = articles
         /\ savedArticles' = savedArticles
         /\ activePlaybackId' = activePlaybackId]_vars

----------------------------------------------------------------------------
(* C24 *)

\* the segments of a path: the texts between its slashes
PathSegments(path) ==
  LET bounds == {i \in 1..Len(path) : At(path, i) = "/"} \cup {Len(path) + 1}
  IN {SubSeq(path, i + 1, j - 1) :
        <<i, j>> \in {b \in bounds \X bounds :
                        /\ b[1] < b[2]
                        /\ \A k \in bounds : ~(b[1] < k /\ k < b[2])}}

IsDateSegment(seg) == Len(seg) = 4 /\ \A k \in 1..4 : At(seg, k) \in Digits

ResemblesArticle(path) ==
  \E seg \in PathSegments(path) :
    IsDateSegment(seg) \/ seg \in Keywords \/ HasSlug(seg)

\* the host is a domain of the allowlist: one of its entries or below one
OnAllowlist(host) ==
  \E d \in TRUSTED_NEWS_DOMAINS : host = d \/ endsWith(host, "." \o d)

UrlRejected(url) ==
  ~ParseUrl(url).ok \/ ParseUrl(url).protocol \notin {"http:", "https:"}

\* C24: the fetch button rejects exactly the texts that do not parse as a
\* URL or whose scheme is not http or https, and then makes no extraction
\* call; an accepted URL is extracted, with the unsupported-domain warning
\* exactly when its host is no domain of the allowlist and its path has no
\* date segment, no article|news|story|content|post segment and no long slug.
C24_UrlPolicy ==
  [][handleFetchFromUrl =>
       LET url == form.newUrl
           parsed == ParseUrl(url)
       IN IF UrlRejected(url)
          THEN /\ form'.fetchError = "invalidUrl"
               /\ ~form'.isFetching
               /\ ev' = <<>>
          ELSE /\ form'.isFetching
               /\ ev' = <<[op |-> "extract", id |-> url]>>
               /\ form'.fetchError = "unsupportedDomain"
                    <=> /\ ~OnAllowlist(parsed.hostname)
                        /\ ~ResemblesArticle(parsed.pathname)]_vars

----------------------------------------------------------------------------
(* C25 *)

\* C25: a generation commit installs a current entry without feedback and
\* star rating and empties the card's displayed feedback, star rating and
\* undo stack; a restore shows the restored entry's feedback and rating and
\* empties the undo stack.
C25_CommitAndRestoreResetRating ==
  [][\A c \in Cards :
       /\ "generated" \in OpsOf(ev', c) =>
            /\ Art(c)'.currentSummary.feedback = "none"
            /\ Art(c)'.currentSummary.starRating = 0
            /\ card'[c].feedback = "none"
            /\ card'[c].starRating = 0
            /\ card'[c].undoStack = <<>>
       /\ handleRestore(c) =>
            /\ Art(c)'.currentSummary \in Range(Art(c).summaryHistory)
            /\ card'[c].feedback = Art(c)'.currentSummary.feedback
            /\ card'[c].starRating = Art(c)'.currentSummary.starRating
            /\ card'[c].undoStack = <<>>]_vars

\* a commit on a card whose previous summary had been rated
C25_Witness ==
  /\ "generated" \in OpsOf(ev, "a1")
  /\ Art("a1").summaryHistory # <<>>
  /\ Art("a1").summaryHistory[1].starRating # 0
  /\ card["a1"].starRating = 0
  /\ card["a1"].undoStack = <<>>

----------------------------------------------------------------------------
(* C26 *)

\* C26: in every state the stored queue and library are the serialised
\* in-memory lists, and loading the page again restores the same queue and
\* library (order, current summaries, histories, feedback); in particular a
\* stored non-empty list is not replaced by an empty one.
C26_StorageFollowsLists ==
  /\ [](/\ storage.queue = <<stringify(articles)>>
        /\ storage.library = <<stringify(savedArticles)>>)
  /\ [][reload =>
          /\ articles' = articles
          /\ savedArticles' = savedArticles
          /\ (articles # <<>> => articles' # <<>>)
          /\ (savedArticles # <<>> => savedArticles' # <<>>)
          /\ storage' = storage]_vars

\* the page was loaded again over a queue whose first article has feedback
\* on its current summary and an older version, and a non-empty library
C26_Witness ==
  /\ ev = <<[op |-> "reload", id |-> "none"]>>
  /\ articles # <<>>
  /\ articles[1].currentSummary.feedback # "none"
  /\ articles[1].summaryHistory # <<>>
  /\ savedArticles # <<>>
  /\ parse(storage.queue[1]) = articles
  /\ stringify(articles) # articles

----------------------------------------------------------------------------
(* C29 *)

\* C29: an engine that is not playing has no progress callback scheduled,
\* and a progress callback that runs on an engine that is not playing
\* changes neither its elapsed time nor its playing flag.
C29_NoFrameWhenStopped ==
  /\ [](\A c \in Cards : ~card[c].isPlaying => ~engine[c].frame.pending)
  /\ [][\A c \in Cards :
          updateProgress(c) /\ ~card[c].isPlaying =>
            /\ engine'[c].currentTime = engine[c].currentTime
            /\ card'[c].isPlaying = card[c].isPlaying]_vars

----------------------------------------------------------------------------
(* C28 *)

\* C28: while a card plays, a progress callback is scheduled, and each run
\* of it before the end sets the elapsed time to the clock's time since the
\* start reference and schedules itself again.
C28_ProgressLoopRuns ==
  /\ [](\A c \in Cards : card[c].isPlaying => engine[c].frame.pending)
  /\ [][\A c \in Cards :
          /\ updateProgressCard(c)
          /\ card[c].isPlaying
          /\ engine[c].elapsed < engine[c].duration
          => /\ engine'[c].currentTime = engine[c].elapsed
             /\ engine'[c].frame.pending]_vars

----------------------------------------------------------------------------
(* C30 *)

\* C30: once a card is disposed, its engine has no source that plays and no
\* progress callback scheduled, and no step reports started, stopped or
\* finished for it.
C30_DisposedEngineIsSilent ==
  /\ [](\A c \in Cards :
          ~engine[c].mounted =>
            /\ LiveSources(engine[c]) = {}
            /\ ~engine[c].frame.pending)
  /\ [][\A c \in Cards :
          ~engine[c].mounted =>
            OpsOf(ev', c) \cap {"started", "stopped", "finished"} = {}]_vars

----------------------------------------------------------------------------
(* C27 *)

\* the ended events delivered to card c in the events e
EndedOf(e, c) == {e[i] : i \in {j \in 1..Len(e) : e[j].id = c /\ e[j].op = "ended"}}

\* C27: an engine has at most one source that plays; the ended event of a
\* source that is not the engine's current source reports no finished and
\* leaves the playing flag and the elapsed time alone, and the ended event
\* of the current source of a mounted card, when its handler is set, stops
\* the playback, sets the elapsed time to the duration and reports finished.
C27_OnlyCurrentSourceFinishes ==
  /\ [](\A c \in Cards : Cardinality(LiveSources(engine[c])) <= 1)
  /\ [][\A c \in Cards : \A e \in EndedOf(ev', c) :
          /\ e.sid # e.current =>
               /\ "finished" \notin OpsOf(ev', c)
               /\ card'[c].isPlaying = card[c].isPlaying
               /\ engine'[c].currentTime = engine[c].currentTime
          /\ (e.sid = e.current /\ e.handler) =>
               /\ "finished" \in OpsOf(ev', c)
               /\ engine[c].mounted =>
                    /\ ~card'[c].isPlaying
                    /\ engine'[c].currentTime = engine'[c].duration]_vars

\* the ended event of a superseded source, its handler still set, arrived
\* while the source of an overlapping later call plays
C27_Witness ==
  /\ \E e \in EndedOf(ev, "a1") : e.sid # e.current /\ e.handler
  /\ card["a1"].isPlaying
  /\ LiveSources(engine["a1"]) # {}

----------------------------------------------------------------------------
(* C21 *)

\* C21: a call of startPlayback of a mounted card that fails, whether before
\* its awaits, in resume or decode, or when the source is created, leaves the
\* card in error with the tag playback and reports no started; the step
\* changes no other card's status, neither list, and not the active slot.
C21_StartFailureIsLocal ==
  [][\A c \in Cards :
       ("startFailed" \in OpsOf(ev', c) /\ engine[c].mounted) =>
         /\ card'[c].status = "error"
         /\ card'[c].error = "playback"
         /\ "started" \notin OpsOf(ev', c)
         /\ \A d \in DOMAIN card \ {c} : card'[d].status = card[d].status
         /\ articles' = articles
         /\ savedArticles' = savedArticles
         /\ activePlaybackId' = activePlaybackId]_vars

\* a restart of the card in the active slot failed
C21_Witness ==
  /\ "startFailed" \in OpsOf(ev, "a1")
  /\ card["a1"].status = "error"
  /\ card["a1"].error = "playback"
  /\ activePlaybackId = "a1"
  /\ engine["a1"].created > 0

----------------------------------------------------------------------------
(* C40 *)

\* C40: a card carries an error tag exactly when its status is error.
C40_TagIffError ==
  \A c \in Cards : (card[c].error # "none") <=> (card[c].status = "error")

----------------------------------------------------------------------------
(* C37 *)

\* C37: for an article with a current summary, the feedback and the star
\* rating its card displays are those stored on the current summary, and the
\* star rating is absent (0) or one of 1..5.
C37_DisplayedIsStored ==
  \A c \in Cards :
    Art(c).currentSummary # NoEntry =>
      /\ card[c].feedback = Art(c).currentSummary.feedback
      /\ card[c].starRating = Art(c).currentSummary.starRating
      /\ card[c].starRating \in 0..5

----------------------------------------------------------------------------
(* C38 *)

\* the {feedback, rating} pair a card displays and the one its article stores
Displayed(k) == [feedback |-> k.feedback, starRating |-> k.starRating]

StoredPair(a) ==
  [feedback |-> a.currentSummary.feedback, starRating |-> a.currentSummary.starRating]

\* C38: a feedback or rating action pushes the pair that card and current
\* summary held before it; undo pops the top pair and puts it on the card
\* and on the current summary, so that n undos after n actions bring both
\* back to the values before the first action; undo on an empty stack
\* changes nothing, and choosing the feedback type already chosen clears it.
C38_UndoRestoresPairs ==
  /\ [][\A c \in Cards :
          /\ (handleFeedback(c) \/ handleStarRating(c)) =>
               /\ card'[c].undoStack = Append(card[c].undoStack, Displayed(card[c]))
               /\ Art(c).currentSummary # NoEntry => Displayed(card[c]) = StoredPair(Art(c))
          /\ handleUndoAction(c) =>
               LET top == card[c].undoStack[Len(card[c].undoStack)]
               IN /\ card'[c].undoStack = SubSeq(card[c].undoStack, 1, Len(card[c].undoStack) - 1)
                  /\ Displayed(card'[c]) = top
                  /\ Art(c).currentSummary # NoEntry => StoredPair(Art(c)') = top]_vars
  /\ [](\A c \in Cards :
          /\ card[c].undoStack = <<>> => UndoAction(State, c) = State
          /\ \A type \in FeedbackTypes :
               card[c].feedback = type =>
                 Feedback(State, c, type).card[c].feedback = "none")

----------------------------------------------------------------------------
(* C39 *)

\* library article a is the saved item of article x: the same id, or the
\* same origin url when x has one
SavedItemOf(a, x) == a.id = x.id \/ (x.url # "none" /\ a.url = x.url)

Unsaved(x) == \A i \in 1..Len(savedArticles) : ~SavedItemOf(savedArticles[i], x)

WithoutItemsOf(list, x) ==
  LET Other(a) == ~SavedItemOf(a, x) IN SelectSeq(list, Other)

C35_SlotIsDisplayed ==
  activePlaybackId = "none" \/ activePlaybackId \in Ids(currentList(State))

\* C36: after every handler and its effects, the article the active slot
\* names has a playing engine.
C36_SlotIsPlaying ==
  \A c \in DOMAIN card : activePlaybackId = c => card[c].isPlaying

\* C34: in every reachable state of an engine the elapsed time lies between
\* zero and the duration.
C34_ElapsedWithinDuration ==
  \A c \in DOMAIN engine :
    /\ 0 <= engine[c].currentTime
    /\ engine[c].currentTime <= engine[c].duration

\* C31: the buffer an engine has cached is the decoded form of the article's
\* current audio payload, and every source that plays plays that payload.
C31_BufferIsCurrentPayload ==
  \A c \in Cards :
    /\ card[c].audioBuffer # "" => card[c].audioBuffer = card[c].audioBlob
    /\ \A x \in LiveSources(engine[c]) : x.buffer = card[c].audioBlob

\* C33: when the source of a playing engine has reached its natural end and
\* the completion callback or the progress callback observes it, the engine
\* reports finished exactly once, is left not playing with the elapsed time
\* equal to the duration, and is not started again in that step.
C33_AtEnd(c) ==
  /\ card[c].sourceNode = "live"
  /\ card[c].isPlaying
  /\ engine[c].elapsed >= BufferDuration(BufferOf(State, c))

C33_NaturalEnd ==
  [][\A c \in Cards :
       (/\ C33_AtEnd(c)
        /\ \/ sourceEnds(c)
           \/ engine[c].frame.isPlaying /\ updateProgress(c))
       => /\ Cardinality({i \in 1..Len(ev') :
                            ev'[i].op = "finished" /\ ev'[i].id = c}) = 1
          /\ ~card'[c].isPlaying
          /\ engine'[c].currentTime = engine'[c].duration
          /\ \A i \in 1..Len(ev') : ~(ev'[i].op = "started" /\ ev'[i].id = c)]_vars

\* C32: when the external calls settle, every generation run ends (its card,
\* if still mounted, is then ready or in error and no longer summarizing or
\* generating audio), and the in-progress flag of the URL extraction is
\* cleared again.
C32_Busy(c) == card[c].status \in {"summarizing", "generating-audio"}

C32_RunsSettle ==
  /\ \A c \in ArticleIds : (runs[c] # {}) ~> (runs[c] = {})
  /\ \A c \in ArticleIds :
       (c \in Shown /\ C32_Busy(c)) ~> (c \notin Shown \/ ~C32_Busy(c))
  /\ [][\A c \in ArticleIds :
          (c \in Shown /\ C32_Busy(c) /\ c \in Shown' /\ ~C32_Busy(c)')
          => card'[c].status \in {"ready", "error"}]_vars
  /\ form.isFetching ~> ~form.isFetching

\* a run has ended in a commit or in an error, and an extraction has ended
\* in an error
C32_Settled ==
  /\ \E c \in ArticleIds : runs[c] = {} /\ card[c].status \in {"ready", "error"}
  /\ nextId > 1
  /\ ~form.isFetching
  /\ form.fetchError = "fetchError"

====
